---- MODULE Spec2Model ----
(***************************************************************************)
(* A model of the desktop widget manager of src/dummy.py: the widget       *)
(* content model (timer, to-do), the pin/unpin lifecycle of desktop        *)
(* attachments, the customization dialog and the JSON layout document.     *)
(*                                                                         *)
(* Python objects that the code compares or shares by identity (the        *)
(* widget_info dicts, the DesktopWidget objects) live in two heaps, W and  *)
(* A, indexed by small identifiers; an identifier is reused once nothing   *)
(* of the program refers to its object any more.                           *)
(***************************************************************************)
EXTENDS Integers, Sequences, FiniteSets, TLC

VARIABLES
    active_widgets,   \* WidgetManager.active_widgets: sequence of widget ids
    desktop_widgets,  \* WidgetManager.desktop_widgets: sequence of attachment ids
    W,                \* heap of widget_info dicts with their widget instance
    A,                \* heap of DesktopWidget objects
    listbox,          \* entries of WidgetManager.widgets_listbox
    doc,              \* the file modern_widget_config.json
    dlg,              \* the customization dialog and the closure of its callbacks
    report,           \* what the last command showed to the user
    preview,          \* the interactive desktop preview and the pointer on its canvas
    obs,              \* observer of the timer: ticks and notifications since a start
    toast             \* the handler that is inside _show_toast, "none" when none is

vars == <<active_widgets, desktop_widgets, W, A, listbox, doc, dlg, report, preview, obs,
          toast>>

----------------------------------------------------------------------------
(* Bounds of the model *)

MaxIds == 4          \* widget objects alive at once (active or still referenced)
MaxAtt == 5          \* DesktopWidget objects alive at once
MaxActive == 2       \* widgets the user creates before removing one
MaxPending == 2      \* scheduled refresh callbacks of one widget
MaxMinutes == 2      \* largest minute count typed into the timer
MaxTasks == 2        \* to-do items of one widget
MaxDoc == 2          \* records of a layout document written outside the program
MaxCoord == 160      \* largest screen coordinate a window is dragged to
MaxScreen == 260     \* largest screen coordinate a widget is moved to in the preview

WIds == 1..MaxIds
AIds == 1..MaxAtt

----------------------------------------------------------------------------
(* Text and numbers: int(text) and str(n) of Python *)

Digits == <<"0", "1", "2", "3", "4", "5", "6", "7", "8", "9">>

IsDigit(c) == \E i \in 1..10 : Digits[i] = c

DigitVal(c) == (CHOOSE i \in 1..10 : Digits[i] = c) - 1

RECURSIVE strip_left(_)
strip_left(t) == IF t # <<>> /\ Head(t) = " " THEN strip_left(Tail(t)) ELSE t

RECURSIVE strip_right(_)
strip_right(t) ==
    IF t # <<>> /\ t[Len(t)] = " " THEN strip_right(SubSeq(t, 1, Len(t) - 1)) ELSE t

\* str.strip(): the text without its leading and trailing blanks
strip(t) == strip_right(strip_left(t))

RECURSIVE digits_value(_)
digits_value(t) ==
    IF t = <<>> THEN 0
    ELSE 10 * digits_value(SubSeq(t, 1, Len(t) - 1)) + DigitVal(t[Len(t)])

\* int(text): blanks around are dropped, one sign is allowed, then only digits.
\* The result is [ok |-> FALSE] when Python raises ValueError.
int(text) ==
    LET s == strip(text)
        signed == s # <<>> /\ Head(s) \in {"-", "+"}
        body == IF signed THEN Tail(s) ELSE s
    IN  IF body = <<>> \/ \E i \in 1..Len(body) : ~IsDigit(body[i])
        THEN [ok |-> FALSE, val |-> 0]
        ELSE [ok |-> TRUE,
              val |-> IF signed /\ Head(s) = "-" THEN 0 - digits_value(body)
                      ELSE digits_value(body)]

RECURSIVE nat_str(_)
nat_str(n) ==
    IF n < 10 THEN <<Digits[n + 1]>> ELSE nat_str(n \div 10) \o <<Digits[(n % 10) + 1]>>

\* str(n) of an integer
str(n) == IF n < 0 THEN <<"-">> \o nat_str(0 - n) ELSE nat_str(n)

----------------------------------------------------------------------------
(* Widget types and their configuration *)

\* WidgetManager.widget_types
widget_types == {"Clock", "Todo List", "Weather", "Timer"}

\* get_default_config of the four widget classes: the fields the customization
\* dialog parses (width, height, font_size)
get_default_config(type) ==
    CASE type = "Clock"     -> [width |-> 280, height |-> 120, font_size |-> 18]
      [] type = "Todo List" -> [width |-> 320, height |-> 400, font_size |-> 11]
      [] type = "Weather"   -> [width |-> 300, height |-> 200, font_size |-> 12]
      [] type = "Timer"     -> [width |-> 250, height |-> 180, font_size |-> 14]

\* an empty dict: falsy in Python
EmptyConfig == [k \in {} |-> 0]

\* BaseWidget.__init__: config or self.get_default_config()
BaseWidget_init_config(type, config) ==
    IF config = EmptyConfig THEN get_default_config(type) ELSE config

\* the widget classes whose update_content reschedules itself
Refreshing == {"Clock", "Weather", "Timer"}

----------------------------------------------------------------------------
(* The two heaps *)

None == 0

\* an unused cell of W
FreeW == [type |-> "", name |-> <<"", 0>>, config |-> EmptyConfig,
          desktop_widget |-> None, built |-> FALSE, tasks |-> <<>>,
          remaining_time |-> 0, timer_active |-> FALSE, display |-> None,
          pending |-> 0, box |-> FALSE, fresh |-> FALSE]

\* an unused cell of A
FreeA == [widget_instance |-> None, x |-> 0, y |-> 0, desktop_window |-> FALSE,
          win_x |-> 0, win_y |-> 0, is_pinned |-> FALSE, fresh |-> FALSE]

\* DesktopWidget.__init__
DesktopWidget_init(inst, x, y) ==
    [widget_instance |-> inst, x |-> x, y |-> y, desktop_window |-> FALSE,
     win_x |-> 0, win_y |-> 0, is_pinned |-> FALSE, fresh |-> TRUE]

\* widget_class(self.root, config) with the widget_info dict around it
widget_info_init(type, name, config) ==
    [type |-> type, name |-> name, config |-> BaseWidget_init_config(type, config),
     desktop_widget |-> None, built |-> FALSE, tasks |-> <<>>,
     remaining_time |-> 0, timer_active |-> FALSE, display |-> None,
     pending |-> 0, box |-> FALSE, fresh |-> TRUE]

NoObs == [started |-> FALSE, n |-> 0, ticks |-> 0, notes |-> 0]

NoDialog == [open |-> FALSE, wi |-> None, config |-> EmptyConfig, aliased |-> FALSE,
             width_var |-> <<>>, height_var |-> <<>>, font_size_var |-> <<>>,
             previews |-> 0]

NoReport == [kind |-> "none", text |-> ""]

\* The preview before open_desktop_preview ran. window: the Toplevel exists;
\* canvas: the attribute preview_canvas is not there ("none"), a canvas on the
\* screen ("live") or one destroyed with its window ("destroyed"); items:
\* preview_widget_items, key i of Python at place i + 1; dragging:
\* dragging_widget + 1, 0 for None. Real coordinates are kept in halves of a
\* pixel (real_x2 is twice real_x). pointer_x, pointer_y and press are of the
\* observer: where the pointer is, measured from the point the button went
\* down at, and the real position the dragged item had then.
NoPreview ==
    [window |-> FALSE, canvas |-> "none", items |-> <<>>, dragging |-> 0,
     drag_start_x |-> 0, drag_start_y |-> 0,
     pointer_x |-> 0, pointer_y |-> 0, press |-> [real_x2 |-> 0, real_y2 |-> 0]]

Range(q) == {q[i] : i \in 1..Len(q)}

\* the program state as one value, so that a handler is a function on it
cur == [active_widgets |-> active_widgets, desktop_widgets |-> desktop_widgets,
        W |-> W, A |-> A, listbox |-> listbox, doc |-> doc, dlg |-> dlg,
        report |-> report, preview |-> preview, obs |-> obs,
        ok |-> TRUE,      \* FALSE once a handler needs more cells than the heaps have
        exc |-> FALSE]    \* TRUE while an exception is propagating

\* the state a command of the user starts from: no object is fresh, which is
\* to say created since the last command began
cmd == [cur EXCEPT !.W = [w \in WIds |-> [W[w] EXCEPT !.fresh = FALSE]],
                   !.A = [a \in AIds |-> [A[a] EXCEPT !.fresh = FALSE]]]

\* the objects the program holds on to by itself: the collection, the closures
\* of the dialog, the items of the preview, a scheduled callback, an open
\* message box
RootWidgets(s) ==
    {w \in WIds : \/ w \in Range(s.active_widgets)
                  \/ s.dlg.wi = w
                  \/ \E i \in 1..Len(s.preview.items) : s.preview.items[i].widget_info = w
                  \/ s.W[w].pending > 0
                  \/ s.W[w].box}

\* the pinned list, and every Toplevel that was not destroyed: it stays on the
\* screen whether or not Python still refers to its owner
RootAtts(s) ==
    {a \in AIds : a \in Range(s.desktop_widgets) \/ s.A[a].desktop_window}

\* what the objects of WS and AS refer to
RECURSIVE Reachable(_, _, _)
Reachable(s, WS, AS) ==
    LET WS2 == WS \cup ({s.A[a].widget_instance : a \in AS} \ {None})
        AS2 == AS \cup (UNION {{s.W[w].desktop_widget, s.W[w].display} : w \in WS} \ {None})
    IN  IF WS2 = WS /\ AS2 = AS THEN [ws |-> WS, as |-> AS]
        ELSE Reachable(s, WS2, AS2)

InUse(s) == Reachable(s, RootWidgets(s), RootAtts(s))

WidgetInUse(s, w) == w \in InUse(s).ws

AttInUse(s, a) == a \in InUse(s).as

\* Python's garbage collection: objects nothing refers to leave the heaps
Collect(s) ==
    LET s0 == [s EXCEPT !.dlg = IF s.dlg.open \/ s.dlg.previews > 0 THEN @ ELSE NoDialog]
        u == InUse(s0)
    IN  [s0 EXCEPT !.W = [w \in WIds |-> IF w \in u.ws THEN s0.W[w] ELSE FreeW],
                   !.obs = [w \in WIds |-> IF w \in u.ws THEN s0.obs[w] ELSE NoObs],
                   !.A = [a \in AIds |-> IF a \in u.as THEN s0.A[a] ELSE FreeA]]

Min(S) == CHOOSE m \in S : \A k \in S : m <= k

RECURSIVE Sorted(_)
Sorted(S) == IF S = {} THEN <<>> ELSE <<Min(S)>> \o Sorted(S \ {Min(S)})

RECURSIVE Dedup(_)
Dedup(q) ==
    IF q = <<>> THEN <<>>
    ELSE LET front == Dedup(SubSeq(q, 1, Len(q) - 1))
         IN  IF q[Len(q)] \in Range(front) THEN front ELSE Append(front, q[Len(q)])

IndexOf(q, e) == CHOOSE i \in 1..Len(q) : q[i] = e

\* The identifiers are names of the model, not of the program: after a handler
\* the objects are named again in a fixed order (the collection first, in its
\* order, so that the widget at place i of active_widgets is W[i])
Renamed(s) ==
    LET worder == Dedup(s.active_widgets
                        \o Sorted({w \in WIds : s.W[w] # FreeW} \ Range(s.active_widgets)))
        refs == [i \in 1..Len(worder) |-> s.W[worder[i]].display]
        aorder == Dedup(s.desktop_widgets
                        \o SelectSeq(refs, LAMBDA a : a # None)
                        \o Sorted({a \in AIds : s.A[a] # FreeA}))
        pw(w) == IF w = None THEN None ELSE IndexOf(worder, w)
        pa(a) == IF a = None THEN None ELSE IndexOf(aorder, a)
    IN  [s EXCEPT
            !.active_widgets = [i \in 1..Len(s.active_widgets) |-> pw(s.active_widgets[i])],
            !.desktop_widgets = [i \in 1..Len(s.desktop_widgets) |-> pa(s.desktop_widgets[i])],
            !.W = [k \in WIds |->
                      IF k <= Len(worder)
                      THEN [s.W[worder[k]] EXCEPT !.desktop_widget = pa(@), !.display = pa(@)]
                      ELSE FreeW],
            !.obs = [k \in WIds |-> IF k <= Len(worder) THEN s.obs[worder[k]] ELSE NoObs],
            !.A = [k \in AIds |->
                      IF k <= Len(aorder)
                      THEN [s.A[aorder[k]] EXCEPT !.widget_instance = pw(@)]
                      ELSE FreeA],
            !.dlg.wi = pw(@),
            !.preview.items = [i \in 1..Len(s.preview.items) |->
                                  [s.preview.items[i] EXCEPT !.widget_info = pw(@)]]]

FreeWIds(s) == {w \in WIds : s.W[w] = FreeW /\ ~WidgetInUse(s, w)}
FreeAIds(s) == {a \in AIds : s.A[a] = FreeA /\ ~AttInUse(s, a)}

\* the widget is pinned: widget_info['desktop_widget'] and ....is_pinned
IsPinned(s, w) ==
    s.W[w].desktop_widget # None /\ s.A[s.W[w].desktop_widget].is_pinned

----------------------------------------------------------------------------
(* Helpers of the handlers *)

\* list.remove(e): the first occurrence leaves the list
RECURSIVE list_remove(_, _)
list_remove(q, e) ==
    IF q = <<>> THEN <<>>
    ELSE IF Head(q) = e THEN Tail(q)
    ELSE <<Head(q)>> \o list_remove(Tail(q), e)

\* del q[i]
list_del(q, i) == SubSeq(q, 1, i - 1) \o SubSeq(q, i + 1, Len(q))

\* a toast of show_success_message, show_info_message, show_warning_message or
\* show_error_message; kind "exception" is an exception that leaves the handler
\* (Tk prints it and goes on), kind "messagebox" a blocking messagebox.showerror
Report(s, kind, text) == [s EXCEPT !.report = [kind |-> kind, text |-> text]]

\* the command showed nothing
Silent(s) == Report(s, "none", "")

\* self.master.after(delay, self.update_content)
after_update_content(s, w) == [s EXCEPT !.W[w].pending = @ + 1]

\* hasattr(self, '<label>') and self.<label>.winfo_exists(): the labels built by
\* the last create_widget are in a window that has not been destroyed
winfo_exists(s, w) ==
    s.W[w].display # None /\ s.A[s.W[w].display].desktop_window

----------------------------------------------------------------------------
(* The widget classes *)

\* messagebox.showinfo("Timer", "Time's up!"): the box opens and update_content
\* goes on only when the user has closed it
showinfo_times_up(s, w) ==
    [s EXCEPT !.W[w].box = TRUE,
              !.obs[w].notes = IF s.obs[w].started THEN @ + 1 ELSE @]

\* an update_content that goes on whether or not its labels exist
TimerWidget_update_content_unguarded(s, w) ==
    IF s.W[w].timer_active /\ s.W[w].remaining_time > 0
    THEN after_update_content([s EXCEPT !.W[w].remaining_time = @ - 1], w)
    ELSE IF s.W[w].timer_active /\ s.W[w].remaining_time <= 0
         THEN showinfo_times_up([s EXCEPT !.W[w].timer_active = FALSE], w)
    ELSE after_update_content(s, w)

\* an update_content that shows the box at zero and leaves the timer switched on
TimerWidget_update_content_stays_active(s, w) ==
    IF ~winfo_exists(s, w) THEN s
    ELSE IF s.W[w].timer_active /\ s.W[w].remaining_time > 0
         THEN after_update_content([s EXCEPT !.W[w].remaining_time = @ - 1], w)
    ELSE IF s.W[w].timer_active /\ s.W[w].remaining_time <= 0
         THEN showinfo_times_up(s, w)
    ELSE after_update_content(s, w)

\* a slip in update_content: the countdown branch also taken at remaining = 0
TimerWidget_update_content_late(s, w) ==
    IF ~winfo_exists(s, w) THEN s
    ELSE IF s.W[w].timer_active /\ s.W[w].remaining_time >= 0
         THEN after_update_content([s EXCEPT !.W[w].remaining_time = @ - 1], w)
    ELSE IF s.W[w].timer_active /\ s.W[w].remaining_time < 0
         THEN showinfo_times_up([s EXCEPT !.W[w].timer_active = FALSE], w)
    ELSE after_update_content(s, w)

\* TimerWidget.update_content up to the message box or, without one, to its end
TimerWidget_update_content(s, w) ==
    IF ~winfo_exists(s, w) THEN s
    ELSE IF s.W[w].timer_active /\ s.W[w].remaining_time > 0
         THEN after_update_content([s EXCEPT !.W[w].remaining_time = @ - 1], w)
    ELSE IF s.W[w].timer_active /\ s.W[w].remaining_time <= 0
         THEN showinfo_times_up([s EXCEPT !.W[w].timer_active = FALSE], w)
    ELSE after_update_content(s, w)

\* ClockWidget.update_content
ClockWidget_update_content(s, w) ==
    IF winfo_exists(s, w) THEN after_update_content(s, w) ELSE s

\* WeatherWidget.update_content
WeatherWidget_update_content(s, w) ==
    IF winfo_exists(s, w) THEN after_update_content(s, w) ELSE s

\* TodoWidget.update_content: the task rows are drawn again from self.tasks
TodoWidget_update_content(s, w) == s

update_content(s, w) ==
    CASE s.W[w].type = "Timer"     -> TimerWidget_update_content(s, w)
      [] s.W[w].type = "Clock"     -> ClockWidget_update_content(s, w)
      [] s.W[w].type = "Weather"   -> WeatherWidget_update_content(s, w)
      [] s.W[w].type = "Todo List" -> TodoWidget_update_content(s, w)

\* TimerWidget.create_widget(parent), parent the window of attachment a
TimerWidget_create_widget(s, w, a) ==
    TimerWidget_update_content(
        [s EXCEPT !.W[w].display = a, !.W[w].built = TRUE,
                  !.W[w].remaining_time = 0, !.W[w].timer_active = FALSE,
                  !.obs[w] = NoObs], w)

\* TodoWidget.create_widget(parent)
TodoWidget_create_widget(s, w, a) ==
    TodoWidget_update_content(
        [s EXCEPT !.W[w].display = a, !.W[w].built = TRUE, !.W[w].tasks = <<>>], w)

\* ClockWidget.create_widget(parent)
ClockWidget_create_widget(s, w, a) ==
    ClockWidget_update_content([s EXCEPT !.W[w].display = a, !.W[w].built = TRUE], w)

\* WeatherWidget.create_widget(parent)
WeatherWidget_create_widget(s, w, a) ==
    WeatherWidget_update_content([s EXCEPT !.W[w].display = a, !.W[w].built = TRUE], w)

widget_create_widget(s, w, a) ==
    CASE s.W[w].type = "Timer"     -> TimerWidget_create_widget(s, w, a)
      [] s.W[w].type = "Clock"     -> ClockWidget_create_widget(s, w, a)
      [] s.W[w].type = "Weather"   -> WeatherWidget_create_widget(s, w, a)
      [] s.W[w].type = "Todo List" -> TodoWidget_create_widget(s, w, a)

\* a slip in start_timer: the timer is switched on before the text is parsed
start_timer_active_first(s, w, text) ==
    LET minutes == int(text)
        s1 == [s EXCEPT !.W[w].timer_active = TRUE]
    IN  IF minutes.ok
        THEN Silent([s1 EXCEPT !.W[w].remaining_time = minutes.val * 60,
                               !.obs[w] = [started |-> TRUE, n |-> minutes.val,
                                           ticks |-> 0, notes |-> 0]])
        ELSE Report(s1, "messagebox", "Please enter a valid number of minutes")

\* TimerWidget.start_timer with the text of minutes_var
start_timer(s, w, text) ==
    LET minutes == int(text)
    IN  IF minutes.ok
        THEN Silent([s EXCEPT !.W[w].remaining_time = minutes.val * 60,
                              !.W[w].timer_active = TRUE,
                              !.obs[w] = [started |-> TRUE, n |-> minutes.val,
                                          ticks |-> 0, notes |-> 0]])
        ELSE Report(s, "messagebox", "Please enter a valid number of minutes")

\* TimerWidget.stop_timer
stop_timer(s, w) ==
    Silent([s EXCEPT !.W[w].timer_active = FALSE, !.W[w].remaining_time = 0,
                     !.obs[w] = NoObs])

\* an add_task that tests the stripped text and stores the text as typed
add_task_as_typed(s, w, text) ==
    IF strip(text) # <<>>
    THEN TodoWidget_update_content(
             Silent([s EXCEPT !.W[w].tasks = Append(@, [text |-> text,
                                                         completed |-> FALSE])]), w)
    ELSE Silent(s)

\* a toggle_task that marks the task completed
toggle_task_mark(s, w, index) ==
    IF 0 <= index /\ index < Len(s.W[w].tasks)
    THEN TodoWidget_update_content(
             Silent([s EXCEPT !.W[w].tasks[index + 1].completed = TRUE]), w)
    ELSE Silent(s)

\* a delete_task that counts the index from 1
delete_task_from_one(s, w, index) ==
    IF 0 <= index /\ index < Len(s.W[w].tasks)
    THEN TodoWidget_update_content(
             Silent([s EXCEPT !.W[w].tasks = list_del(@, index)]), w)
    ELSE Silent(s)

\* TodoWidget.add_task with the text of the entry
add_task(s, w, text) ==
    LET task_text == strip(text)
    IN  IF task_text # <<>>
        THEN TodoWidget_update_content(
                 Silent([s EXCEPT !.W[w].tasks = Append(@, [text |-> task_text,
                                                             completed |-> FALSE])]), w)
        ELSE Silent(s)

\* TodoWidget.toggle_task(index), index counted from 0
toggle_task(s, w, index) ==
    IF 0 <= index /\ index < Len(s.W[w].tasks)
    THEN TodoWidget_update_content(
             Silent([s EXCEPT !.W[w].tasks[index + 1].completed = ~@]), w)
    ELSE Silent(s)

\* TodoWidget.delete_task(index), index counted from 0
delete_task(s, w, index) ==
    IF 0 <= index /\ index < Len(s.W[w].tasks)
    THEN TodoWidget_update_content(
             Silent([s EXCEPT !.W[w].tasks = list_del(@, index + 1)]), w)
    ELSE Silent(s)

----------------------------------------------------------------------------
(* DesktopWidget *)

\* DesktopWidget.pin_to_desktop
pin_to_desktop(s, a) ==
    IF s.A[a].is_pinned THEN s
    ELSE LET s1 == [s EXCEPT !.A[a].desktop_window = TRUE,
                             !.A[a].win_x = s.A[a].x, !.A[a].win_y = s.A[a].y]
             s2 == widget_create_widget(s1, s.A[a].widget_instance, a)
         IN  [s2 EXCEPT !.A[a].is_pinned = TRUE]

\* an unpin that clears the flag and leaves the window on the screen
unpin_from_desktop_flag_only(s, a) ==
    IF s.A[a].desktop_window THEN [s EXCEPT !.A[a].is_pinned = FALSE] ELSE s

\* DesktopWidget.unpin_from_desktop
unpin_from_desktop(s, a) ==
    IF s.A[a].desktop_window
    THEN [s EXCEPT !.A[a].desktop_window = FALSE, !.A[a].is_pinned = FALSE]
    ELSE s

\* DesktopWidget._make_draggable.do_drag: the window moves by (dx, dy)
do_drag(s, a, dx, dy) ==
    LET x == s.A[a].win_x + dx
        y == s.A[a].win_y + dy
    IN  Silent([s EXCEPT !.A[a].win_x = x, !.A[a].win_y = y,
                         !.A[a].x = x, !.A[a].y = y])

\* the cell a new object gets; None when the heap of the model is full
alloc_att(s) == IF FreeAIds(s) = {} THEN None ELSE Min(FreeAIds(s))
alloc_widget(s) == IF FreeWIds(s) = {} THEN None ELSE Min(FreeWIds(s))

HeapFull(s) == [s EXCEPT !.ok = FALSE]

----------------------------------------------------------------------------
(* WidgetManager: create, pin, unpin, remove *)

\* the position pin_widget_to_desktop gives to the next attachment
stagger(n) == 100 + (n * 30)

\* WidgetManager.update_widgets_list
update_widgets_list(s) ==
    [s EXCEPT !.listbox = [i \in 1..Len(s.active_widgets) |->
                              [name |-> s.W[s.active_widgets[i]].name,
                               pin_mark |-> IsPinned(s, s.active_widgets[i])]]]

\* WidgetManager.pin_widget_to_desktop(widget_info)
pin_widget_to_desktop(s, w) ==
    IF IsPinned(s, w) THEN s
    ELSE LET x == stagger(Len(s.desktop_widgets))
             y == stagger(Len(s.desktop_widgets))
             a == alloc_att(s)
         IN  IF a = None THEN HeapFull(s)
             ELSE LET s1 == [s EXCEPT !.A[a] = DesktopWidget_init(w, x, y)]
                      s2 == pin_to_desktop(s1, a)
                  IN  [s2 EXCEPT !.W[w].desktop_widget = a,
                                 !.desktop_widgets = Append(@, a)]

\* WidgetManager.create_widget with the type of widget_type_var
create_widget(s, widget_type) ==
    LET w == alloc_widget(s)
        name == <<widget_type, Len(s.active_widgets) + 1>>
    IN  IF w = None THEN HeapFull(s)
        ELSE LET s1 == [s EXCEPT !.W[w] = widget_info_init(widget_type, name, EmptyConfig),
                                 !.active_widgets = Append(@, w)]
                 s2 == pin_widget_to_desktop(s1, w)
                 s3 == update_widgets_list(s2)
             IN  Report(s3, "success", "widget created and pinned to desktop!")

\* widget_info = self.active_widgets[index] raises IndexError when the listbox
\* has more entries than the collection; sel is the selected entry counted
\* from 1, 0 when curselection() is empty
IndexError(s, sel) == sel > Len(s.active_widgets)

\* a pin-selected that pins a pinned widget once more
pin_selected_widget_again(s, sel) ==
    IF sel = 0 THEN Report(s, "warning", "Please select a widget to pin.")
    ELSE IF IndexError(s, sel) THEN Report(s, "exception", "IndexError")
    ELSE LET w == s.active_widgets[sel]
         IN  IF IsPinned(s, w)
             THEN Report(pin_widget_to_desktop([s EXCEPT !.W[w].desktop_widget = None], w),
                         "info", "Widget is already pinned to desktop!")
             ELSE Report(pin_widget_to_desktop(s, w), "success", "pinned to desktop!")

\* WidgetManager.pin_selected_widget
pin_selected_widget(s, sel) ==
    IF sel = 0 THEN Report(s, "warning", "Please select a widget to pin.")
    ELSE IF IndexError(s, sel) THEN Report(s, "exception", "IndexError")
    ELSE LET w == s.active_widgets[sel]
         IN  IF IsPinned(s, w)
             THEN Report(s, "info", "Widget is already pinned to desktop!")
             ELSE Report(pin_widget_to_desktop(s, w), "success", "pinned to desktop!")

\* an unpin-selected that forgets the attachment of a widget that is not pinned
unpin_selected_widget_forgetful(s, sel) ==
    IF sel = 0 THEN Report(s, "warning", "Please select a widget to unpin.")
    ELSE IF IndexError(s, sel) THEN Report(s, "exception", "IndexError")
    ELSE LET w == s.active_widgets[sel]
             a == s.W[w].desktop_widget
         IN  IF IsPinned(s, w)
             THEN LET s1 == unpin_from_desktop(s, a)
                  IN  IF a \in Range(s1.desktop_widgets)
                      THEN Report([s1 EXCEPT !.desktop_widgets = list_remove(@, a),
                                             !.W[w].desktop_widget = None],
                                  "success", "unpinned from desktop!")
                      ELSE Report(s1, "exception", "ValueError")
             ELSE Report([s EXCEPT !.W[w].desktop_widget = None],
                         "info", "Widget is not currently pinned to desktop.")

\* WidgetManager.unpin_selected_widget
unpin_selected_widget(s, sel) ==
    IF sel = 0 THEN Report(s, "warning", "Please select a widget to unpin.")
    ELSE IF IndexError(s, sel) THEN Report(s, "exception", "IndexError")
    ELSE LET w == s.active_widgets[sel]
             a == s.W[w].desktop_widget
         IN  IF IsPinned(s, w)
             THEN LET s1 == unpin_from_desktop(s, a)
                  IN  IF a \in Range(s1.desktop_widgets)
                      THEN Report([s1 EXCEPT !.desktop_widgets = list_remove(@, a),
                                             !.W[w].desktop_widget = None],
                                  "success", "unpinned from desktop!")
                      ELSE Report(s1, "exception", "ValueError")
             ELSE Report(s, "info", "Widget is not currently pinned to desktop.")

\* a remove that discards the widget and leaves its attachment pinned
remove_widget_without_unpin(s, sel) ==
    IF sel = 0 THEN Report(s, "warning", "Please select a widget to remove.")
    ELSE IF IndexError(s, sel) THEN Report(s, "exception", "IndexError")
    ELSE LET s2 == [s EXCEPT !.active_widgets = list_del(@, sel)]
             s3 == update_widgets_list(s2)
         IN  Report(s3, "success", "Widget removed successfully!")

\* WidgetManager.remove_widget
remove_widget(s, sel) ==
    IF sel = 0 THEN Report(s, "warning", "Please select a widget to remove.")
    ELSE IF IndexError(s, sel) THEN Report(s, "exception", "IndexError")
    ELSE LET w == s.active_widgets[sel]
             a == s.W[w].desktop_widget
             s1 == IF IsPinned(s, w)
                   THEN LET u == unpin_from_desktop(s, a)
                        IN  IF a \in Range(u.desktop_widgets)
                            THEN [u EXCEPT !.desktop_widgets = list_remove(@, a)]
                            ELSE u
                   ELSE s
             s2 == [s1 EXCEPT !.active_widgets = list_del(@, sel)]
             s3 == update_widgets_list(s2)
         IN  Report(s3, "success", "Widget removed successfully!")

----------------------------------------------------------------------------
(* The desktop preview *)

\* The screen of the model: scale_x = canvas_width / screen_width = 2/3 and
\* scale_y = canvas_height / screen_height = 1/2, so that dx / scale_x is
\* 3 dx halves of a pixel and dy / scale_y is 4 dy halves. The arithmetic is
\* exact; the rounding of Python's floats is not part of the model.
HalvesPerDx == 3
HalvesPerDy == 4

\* int(v) of the float v = h / 2: truncation towards zero
int_of_halves(h) == IF h >= 0 THEN h \div 2 ELSE -((-h) \div 2)

\* the default position of the item with key i - 1
default_x(i) == 200 + (i - 1) * 50
default_y(i) == 150 + (i - 1) * 50

\* the entry add_interactive_widgets stores for place i of active_widgets
interactive_widget(s, i) ==
    LET w == s.active_widgets[i]
    IN  IF IsPinned(s, w)
        THEN [widget_info |-> w,
              real_x2 |-> 2 * s.A[s.W[w].desktop_widget].x,
              real_y2 |-> 2 * s.A[s.W[w].desktop_widget].y]
        ELSE [widget_info |-> w,
              real_x2 |-> 2 * default_x(i), real_y2 |-> 2 * default_y(i)]

\* WidgetManager.add_interactive_widgets: the keys 0 .. len(active_widgets) - 1
\* of preview_widget_items are written, the other keys stay
add_interactive_widgets(s) ==
    LET n == Len(s.active_widgets)
        old == s.preview.items
        m == IF n >= Len(old) THEN n ELSE Len(old)
    IN  [s EXCEPT !.preview.items =
                      [i \in 1..m |-> IF i <= n THEN interactive_widget(s, i) ELSE old[i]]]

\* WidgetManager.open_desktop_preview
open_desktop_preview(s) ==
    IF s.preview.window THEN Silent(s)
    ELSE LET s1 == [s EXCEPT !.preview.window = TRUE,
                             !.preview.canvas = "live",
                             !.preview.items = <<>>]
             s2 == add_interactive_widgets(s1)
         IN  Silent([s2 EXCEPT !.preview.dragging = 0,
                               !.preview.drag_start_x = 0,
                               !.preview.drag_start_y = 0])

\* the user closes the preview window: Tk destroys the Toplevel and the canvas
\* in it; the attributes of the manager keep their objects
close_preview(s) ==
    Silent([s EXCEPT !.preview.window = FALSE, !.preview.canvas = "destroyed"])

\* WidgetManager.on_preview_click: find_closest gave a canvas item of the entry
\* at place target, or one of the desktop simulation (target 0)
on_preview_click(s, target, ex, ey) ==
    IF target = 0 THEN Silent(s)
    ELSE Silent([s EXCEPT !.preview.dragging = target,
                          !.preview.drag_start_x = ex,
                          !.preview.drag_start_y = ey])

\* a write that stores x and y and leaves the window where it is
write_position_stored_only(s, i, new_x, new_y) ==
    LET w == s.preview.items[i].widget_info
        a == s.W[w].desktop_widget
    IN  IF IsPinned(s, w)
        THEN [s EXCEPT !.A[a].x = new_x, !.A[a].y = new_y]
        ELSE s

\* the position of the entry at place i goes to the attachment of its widget
\* when the widget is pinned: geometry of the window, x and y
write_position(s, i, new_x, new_y) ==
    LET w == s.preview.items[i].widget_info
        a == s.W[w].desktop_widget
    IN  IF IsPinned(s, w)
        THEN [s EXCEPT !.A[a].win_x = new_x, !.A[a].win_y = new_y,
                       !.A[a].x = new_x, !.A[a].y = new_y]
        ELSE s

\* an on_preview_drag that moves the item on the canvas and leaves the desktop
\* window where it is
on_preview_drag_canvas_only(s, ex, ey) ==
    IF s.preview.dragging = 0 THEN Silent(s)
    ELSE LET i == s.preview.dragging
             dx == ex - s.preview.drag_start_x
             dy == ey - s.preview.drag_start_y
         IN  Silent([s EXCEPT !.preview.items[i].real_x2 = @ + HalvesPerDx * dx,
                              !.preview.items[i].real_y2 = @ + HalvesPerDy * dy,
                              !.preview.drag_start_x = ex,
                              !.preview.drag_start_y = ey])

\* an on_preview_drag that keeps the point of the press as the start of every
\* move
on_preview_drag_from_press(s, ex, ey) ==
    IF s.preview.dragging = 0 THEN Silent(s)
    ELSE LET i == s.preview.dragging
             dx == ex - s.preview.drag_start_x
             dy == ey - s.preview.drag_start_y
             s1 == [s EXCEPT !.preview.items[i].real_x2 = @ + HalvesPerDx * dx,
                             !.preview.items[i].real_y2 = @ + HalvesPerDy * dy]
         IN  Silent(write_position(s1, i, int_of_halves(s1.preview.items[i].real_x2),
                                   int_of_halves(s1.preview.items[i].real_y2)))

\* WidgetManager.on_preview_drag with the pointer at (ex, ey)
on_preview_drag(s, ex, ey) ==
    IF s.preview.dragging = 0 THEN Silent(s)
    ELSE LET i == s.preview.dragging
             dx == ex - s.preview.drag_start_x
             dy == ey - s.preview.drag_start_y
             s1 == [s EXCEPT !.preview.items[i].real_x2 = @ + HalvesPerDx * dx,
                             !.preview.items[i].real_y2 = @ + HalvesPerDy * dy]
             s2 == write_position(s1, i, int_of_halves(s1.preview.items[i].real_x2),
                                  int_of_halves(s1.preview.items[i].real_y2))
         IN  Silent([s2 EXCEPT !.preview.drag_start_x = ex,
                               !.preview.drag_start_y = ey])

\* a release that snaps the dragged item to whole pixels
on_preview_release_snapping(s) ==
    IF s.preview.dragging = 0 THEN Silent(s)
    ELSE Silent([s EXCEPT
             !.preview.items[s.preview.dragging].real_x2 = 2 * int_of_halves(@),
             !.preview.items[s.preview.dragging].real_y2 = 2 * int_of_halves(@),
             !.preview.dragging = 0])

\* WidgetManager.on_preview_release
on_preview_release(s) == Silent([s EXCEPT !.preview.dragging = 0])

\* the button goes up: the observer forgets the drag
pointer_release(s) ==
    [on_preview_release(s) EXCEPT !.preview.pointer_x = 0, !.preview.pointer_y = 0,
                                  !.preview.press = NoPreview.press]

\* the loop of apply_preview_positions over the entries from place i on
RECURSIVE apply_positions_from(_, _, _)
apply_positions_from(s, i, applied_count) ==
    IF i > Len(s.preview.items) THEN [state |-> s, applied_count |-> applied_count]
    ELSE LET it == s.preview.items[i]
         IN  IF IsPinned(s, it.widget_info)
             THEN apply_positions_from(
                      write_position(s, i, int_of_halves(it.real_x2),
                                     int_of_halves(it.real_y2)),
                      i + 1, applied_count + 1)
             ELSE apply_positions_from(s, i + 1, applied_count)

\* WidgetManager.apply_preview_positions
apply_preview_positions(s) ==
    LET done == apply_positions_from(s, 1, 0)
    IN  Report(done.state, "success",
               "Applied positions to " \o ToString(done.applied_count) \o " desktop widgets!")

\* the loop of reset_preview_positions over the entries from place i on
RECURSIVE reset_positions_from(_, _)
reset_positions_from(s, i) ==
    IF i > Len(s.preview.items) THEN s
    ELSE LET s1 == [s EXCEPT !.preview.items[i].real_x2 = 2 * default_x(i),
                             !.preview.items[i].real_y2 = 2 * default_y(i)]
         IN  reset_positions_from(write_position(s1, i, default_x(i), default_y(i)), i + 1)

\* WidgetManager.reset_preview_positions
reset_preview_positions(s) ==
    Report(reset_positions_from(s, 1), "success", "Widget positions reset to default!")

\* WidgetManager.refresh_preview; on a destroyed canvas the first delete
\* raises TclError
refresh_preview(s) ==
    CASE s.preview.canvas = "none" -> s
      [] s.preview.canvas = "live" -> add_interactive_widgets(s)
      [] s.preview.canvas = "destroyed" ->
             IF s.active_widgets = <<>> THEN s ELSE [s EXCEPT !.exc = TRUE]

\* the button goes down on the canvas: the observer notes the point and the
\* real position of the item under it
pointer_press(s, target) ==
    LET s1 == on_preview_click(s, target, 0, 0)
    IN  IF target = 0 THEN s1
        ELSE [s1 EXCEPT !.preview.pointer_x = 0, !.preview.pointer_y = 0,
                        !.preview.press = [real_x2 |-> s.preview.items[target].real_x2,
                                           real_y2 |-> s.preview.items[target].real_y2]]

\* the pointer moves by (mx, my) with the button down
pointer_move(s, mx, my) ==
    LET ex == s.preview.pointer_x + mx
        ey == s.preview.pointer_y + my
        s1 == on_preview_drag(s, ex, ey)
    IN  IF s.preview.dragging = 0 THEN s1
        ELSE [s1 EXCEPT !.preview.pointer_x = ex, !.preview.pointer_y = ey]

----------------------------------------------------------------------------
(* The customization dialog *)

\* WidgetManager.open_modern_customization_dialog(widget_info): config is the
\* dict of the instance at this moment, the entries start from its values.
\* dlg.config is the value of that dict; dlg.aliased says that the instance
\* still uses this very dict
open_modern_customization_dialog(s, w) ==
    Silent([s EXCEPT !.dlg = [open |-> TRUE, wi |-> w, config |-> s.W[w].config,
                              aliased |-> TRUE,
                              width_var |-> str(s.W[w].config.width),
                              height_var |-> str(s.W[w].config.height),
                              font_size_var |-> str(s.W[w].config.font_size),
                              previews |-> 0]])

\* WidgetManager.customize_widget
customize_widget(s, sel) ==
    IF sel = 0 THEN Report(s, "warning", "Please select a widget to customize.")
    ELSE IF IndexError(s, sel) THEN Report(s, "exception", "IndexError")
    ELSE open_modern_customization_dialog(s, s.active_widgets[sel])

\* config[key] = value on the dict the dialog captured
dialog_config_set(s, key, value) ==
    LET s1 == [s EXCEPT !.dlg.config[key] = value]
    IN  IF s.dlg.aliased THEN [s1 EXCEPT !.W[s.dlg.wi].config[key] = value] ELSE s1

\* a re-pin that takes the next staggered position instead of the old one
repin_at_staggered_position(s, w) ==
    LET old == s.W[w].desktop_widget
        s1 == unpin_from_desktop(s, old)
        a == alloc_att(s1)
    IN  IF a = None THEN HeapFull(s)
        ELSE pin_to_desktop([s1 EXCEPT !.A[a] = DesktopWidget_init(w,
                                                   stagger(Len(s.desktop_widgets)),
                                                   stagger(Len(s.desktop_widgets))),
                                       !.W[w].desktop_widget = a], a)

\* the unpin and re-pin of apply_changes and preview_changes: a new
\* DesktopWidget at the old position takes the place of the old one in
\* widget_info (and nowhere else)
repin_at_old_position(s, w) ==
    LET old == s.W[w].desktop_widget
        old_x == s.A[old].x
        old_y == s.A[old].y
        s1 == unpin_from_desktop(s, old)
        a == alloc_att(s1)
    IN  IF a = None THEN HeapFull(s)
        ELSE pin_to_desktop([s1 EXCEPT !.A[a] = DesktopWidget_init(w, old_x, old_y),
                                       !.W[w].desktop_widget = a], a)

\* apply_changes of the dialog up to the call of show_success_message or
\* show_error_message
apply_changes_until_toast(s) ==
    LET w == s.dlg.wi
        width == int(s.dlg.width_var)
        height == int(s.dlg.height_var)
        font_size == int(s.dlg.font_size_var)
        invalid == Report(s, "error", "Invalid input")
    IN  IF ~width.ok THEN invalid
        ELSE LET s1 == dialog_config_set(s, "width", width.val)
             IN  IF ~height.ok THEN Report(s1, "error", "Invalid input")
        ELSE LET s2 == dialog_config_set(s1, "height", height.val)
             IN  IF ~font_size.ok THEN Report(s2, "error", "Invalid input")
        ELSE LET s3 == dialog_config_set(s2, "font_size", font_size.val)
                 s4 == IF IsPinned(s3, w) THEN repin_at_old_position(s3, w) ELSE s3
                 s5 == refresh_preview(s4)
                 s6 == Report(s5, "success", "Widget customization applied successfully!")
             IN  IF s5.exc THEN Report([s5 EXCEPT !.exc = FALSE], "exception", "TclError")
                 ELSE s6

\* dialog.destroy() of apply_changes, the statement after show_success_message
apply_changes_after_toast(s) == [s EXCEPT !.dlg.open = FALSE]

\* apply_changes of the dialog
apply_changes(s) ==
    LET s6 == apply_changes_until_toast(s)
    IN  IF s6.report.kind = "success" THEN apply_changes_after_toast(s6) ELSE s6

\* preview_changes of the dialog, run by a callback the edit of an entry scheduled
preview_changes(s) ==
    LET w == s.dlg.wi
        width == int(s.dlg.width_var)
        height == int(s.dlg.height_var)
        font_size == int(s.dlg.font_size_var)
    IN  IF ~width.ok \/ ~height.ok \/ ~font_size.ok THEN s
        ELSE LET temp_config == [s.dlg.config EXCEPT !.width = width.val,
                                                     !.height = height.val,
                                                     !.font_size = font_size.val]
             IN  IF IsPinned(s, w)
                 THEN repin_at_old_position(
                          [s EXCEPT !.W[w].config = temp_config,
                                    !.dlg.aliased = FALSE], w)
                 ELSE s

\* the user types into one of the three entries: the trace of the variable
\* schedules preview_changes
dialog_edit(s, field, text) ==
    LET s1 == CASE field = "width"     -> [s EXCEPT !.dlg.width_var = text]
                [] field = "height"    -> [s EXCEPT !.dlg.height_var = text]
                [] field = "font_size" -> [s EXCEPT !.dlg.font_size_var = text]
    IN  Silent([s1 EXCEPT !.dlg.previews = @ + 1])

\* Cancel: dialog.destroy
dialog_cancel(s) == Silent([s EXCEPT !.dlg.open = FALSE])

----------------------------------------------------------------------------
(* Persistence *)

NoFile == [kind |-> "absent", widgets |-> <<>>]
Unparseable == [kind |-> "garbage", widgets |-> <<>>]

\* save_config without the position of a pinned widget
save_record_without_position(s, w) ==
    IF IsPinned(s, w)
    THEN [type |-> s.W[w].type, name |-> s.W[w].name, config |-> s.W[w].config,
          pinned |-> TRUE]
    ELSE [type |-> s.W[w].type, name |-> s.W[w].name, config |-> s.W[w].config]

\* the record save_config writes for one widget
save_record(s, w) ==
    IF IsPinned(s, w)
    THEN [type |-> s.W[w].type, name |-> s.W[w].name, config |-> s.W[w].config,
          desktop_x |-> s.A[s.W[w].desktop_widget].x,
          desktop_y |-> s.A[s.W[w].desktop_widget].y,
          pinned |-> TRUE]
    ELSE [type |-> s.W[w].type, name |-> s.W[w].name, config |-> s.W[w].config]

\* WidgetManager.save_config
save_config(s) ==
    Report([s EXCEPT !.doc = [kind |-> "json",
                              widgets |-> [i \in 1..Len(s.active_widgets) |->
                                              save_record(s, s.active_widgets[i])]]],
           "success", "Layout saved successfully!")

\* dict.get(key, default)
get(d, key, default) == IF key \in DOMAIN d THEN d[key] ELSE default

\* a loop of load_config that raises on a type it does not know
load_record_strict(s, widget_data) ==
    IF "type" \notin DOMAIN widget_data THEN [s EXCEPT !.exc = TRUE]
    ELSE IF widget_data.type \notin widget_types THEN [s EXCEPT !.exc = TRUE]
    ELSE IF "config" \notin DOMAIN widget_data \/ "name" \notin DOMAIN widget_data
         THEN [s EXCEPT !.exc = TRUE]
    ELSE LET w == alloc_widget(s)
         IN  IF w = None THEN HeapFull(s)
             ELSE LET s1 == [s EXCEPT !.W[w] = widget_info_init(widget_data.type,
                                                   widget_data.name, widget_data.config),
                                      !.active_widgets = Append(@, w)]
                  IN  IF get(widget_data, "pinned", FALSE)
                      THEN LET x == get(widget_data, "desktop_x", 100)
                               y == get(widget_data, "desktop_y", 100)
                               a == alloc_att(s1)
                           IN  IF a = None THEN HeapFull(s1)
                               ELSE LET s2 == pin_to_desktop(
                                                [s1 EXCEPT !.A[a] = DesktopWidget_init(w, x, y)], a)
                                    IN  [s2 EXCEPT !.W[w].desktop_widget = a,
                                                   !.desktop_widgets = Append(@, a)]
                      ELSE s1

\* one turn of the loop of load_config; a missing key raises KeyError
load_record(s, widget_data) ==
    IF "type" \notin DOMAIN widget_data THEN [s EXCEPT !.exc = TRUE]
    ELSE IF widget_data.type \notin widget_types THEN s
    ELSE IF "config" \notin DOMAIN widget_data \/ "name" \notin DOMAIN widget_data
         THEN [s EXCEPT !.exc = TRUE]
    ELSE LET w == alloc_widget(s)
         IN  IF w = None THEN HeapFull(s)
             ELSE LET s1 == [s EXCEPT !.W[w] = widget_info_init(widget_data.type,
                                                   widget_data.name, widget_data.config),
                                      !.active_widgets = Append(@, w)]
                  IN  IF get(widget_data, "pinned", FALSE)
                      THEN LET x == get(widget_data, "desktop_x", 100)
                               y == get(widget_data, "desktop_y", 100)
                               a == alloc_att(s1)
                           IN  IF a = None THEN HeapFull(s1)
                               ELSE LET s2 == pin_to_desktop(
                                                [s1 EXCEPT !.A[a] = DesktopWidget_init(w, x, y)], a)
                                    IN  [s2 EXCEPT !.W[w].desktop_widget = a,
                                                   !.desktop_widgets = Append(@, a)]
                      ELSE s1

\* the loop over config_data.get('widgets', []), left at the first exception
RECURSIVE load_records(_, _)
load_records(s, records) ==
    IF records = <<>> \/ s.exc \/ ~s.ok THEN s
    ELSE load_records(load_record(s, Head(records)), Tail(records))

\* the loop that unpins every pinned widget before the lists are emptied
RECURSIVE unpin_all(_, _)
unpin_all(s, ws) ==
    IF ws = <<>> THEN s
    ELSE unpin_all(IF IsPinned(s, Head(ws))
                   THEN unpin_from_desktop(s, s.W[Head(ws)].desktop_widget)
                   ELSE s, Tail(ws))

\* a clearing that empties the two lists and destroys no window
load_clear_lists_only(s) ==
    [s EXCEPT !.active_widgets = <<>>, !.desktop_widgets = <<>>]

\* "Clear existing widgets" of load_config
load_clear(s) ==
    [unpin_all(s, s.active_widgets) EXCEPT !.active_widgets = <<>>,
                                             !.desktop_widgets = <<>>]

\* WidgetManager.load_config
load_config(s) ==
    IF s.doc.kind = "absent" THEN Silent(s)
    ELSE IF s.doc.kind = "garbage" THEN Report(s, "error", "Failed to load layout")
    ELSE LET s1 == load_clear(s)
             s2 == load_records(s1, s.doc.widgets)
         IN  IF s2.exc
             THEN Report([s2 EXCEPT !.exc = FALSE], "error", "Failed to load layout")
             ELSE Report(update_widgets_list(s2), "success", "Layout loaded successfully!")

----------------------------------------------------------------------------
(* Callbacks of the event loop *)

\* the largest count of ticks the observer tells apart
TickCap == (MaxMinutes * 60) + 2

\* a scheduled update_content runs; the observer counts the run as a refresh
\* tick of the timer when the display is there
tick(s, w) ==
    LET s1 == [s EXCEPT !.W[w].pending = @ - 1]
        s2 == IF winfo_exists(s1, w) /\ s1.obs[w].started /\ s1.obs[w].ticks < TickCap
              THEN [s1 EXCEPT !.obs[w].ticks = @ + 1]
              ELSE s1
    IN  update_content(s2, w)

\* the user closes the "Time's up!" box: update_content goes on to its last line
close_times_up(s, w) == after_update_content([s EXCEPT !.W[w].box = FALSE], w)

\* a scheduled preview_changes runs
preview_fire(s) == preview_changes([s EXCEPT !.dlg.previews = @ - 1])

----------------------------------------------------------------------------
(* Inputs *)

\* texts typed into minutes_var of a timer
MinuteTexts ==
    {str(n) : n \in (0 - 1)..MaxMinutes}
        \cup {<<" ">> \o str(1) \o <<" ">>, <<"a", "b", "c">>, <<>>, <<"1", ".", "5">>}

\* texts typed into the entry of a to-do list
TaskTexts == {<<"a">>, <<" ", "b", " ">>, <<" ">>, <<>>}

\* indexes handed to toggle_task and delete_task: one below and one above
\* the indexes of a full list
TaskIndexes == (0 - 1)..MaxTasks

\* texts typed into width, height or font size of the dialog
DimTexts == {str(90), <<" ", "7", "0">>, <<"a", "b", "c">>, <<>>}

\* distances a desktop window is dragged
DragDeltas == {0 - 30, 30}

\* the config of a record of a layout document written outside the program
DocConfig(type) ==
    IF type \in widget_types THEN get_default_config(type)
    ELSE [width |-> 90, height |-> 90, font_size |-> 9]

\* records of such a document: of an unknown type, unpinned, pinned with and
\* without coordinates, with an empty config, without a type, without a config
DocRecords ==
    {[type |-> "Gadget", name |-> <<"Gadget", 1>>, config |-> DocConfig("Gadget")],
     [type |-> "Todo List", name |-> <<"Todo List", 1>>, config |-> DocConfig("Todo List")],
     [type |-> "Timer", name |-> <<"Timer", 1>>, config |-> DocConfig("Timer"),
      desktop_x |-> 130, desktop_y |-> 160, pinned |-> TRUE],
     [type |-> "Clock", name |-> <<"Clock", 2>>, config |-> DocConfig("Clock"),
      pinned |-> TRUE],
     [type |-> "Weather", name |-> <<"Weather", 2>>, config |-> EmptyConfig],
     [name |-> <<"Timer", 1>>, config |-> DocConfig("Timer")],
     [type |-> "Timer", name |-> <<"Timer", 1>>]}

RECURSIVE SeqsUpTo(_, _)
SeqsUpTo(S, n) ==
    IF n = 0 THEN {<<>>}
    ELSE LET shorter == SeqsUpTo(S, n - 1)
         IN  shorter \cup {Append(q, e) : q \in shorter, e \in S}

Docs == {Unparseable} \cup {[kind |-> "json", widgets |-> q] : q \in SeqsUpTo(DocRecords, MaxDoc)}

----------------------------------------------------------------------------
(* The state machine *)

\* the bounds of the model, as a guard on the state a step leads to
Bounded(s) ==
    /\ s.ok
    /\ Len(s.active_widgets) <= MaxIds
    /\ \A w \in WIds : s.W[w].pending <= MaxPending /\ Len(s.W[w].tasks) <= MaxTasks
    /\ s.dlg.previews <= MaxPending
    /\ \A a \in AIds : s.A[a].x \in 0..MaxScreen /\ s.A[a].y \in 0..MaxScreen
    /\ \A i \in 1..Len(s.preview.items) :
           /\ s.preview.items[i].real_x2 \in 0..(2 * MaxScreen)
           /\ s.preview.items[i].real_y2 \in 0..(2 * MaxScreen)

\* the step to the state a handler has reached: showing is the handler that
\* stands in _show_toast afterwards
Step(reached, showing) ==
    \E t \in {reached} :
    /\ Bounded(t)
    /\ \E c \in {Renamed(Collect(t))} :
           /\ active_widgets' = c.active_widgets
           /\ desktop_widgets' = c.desktop_widgets
           /\ W' = c.W
           /\ A' = c.A
           /\ listbox' = c.listbox
           /\ doc' = c.doc
           /\ dlg' = c.dlg
           /\ report' = c.report
           /\ preview' = c.preview
           /\ obs' = c.obs
           /\ toast' = showing

\* the step to the state a handler returns
Becomes(returned) == Step(returned, toast)

\* WidgetManager.__init__ before load_config
Constructed(d) ==
    [active_widgets |-> <<>>, desktop_widgets |-> <<>>,
     W |-> [w \in WIds |-> FreeW], A |-> [a \in AIds |-> FreeA],
     listbox |-> <<>>, doc |-> d, dlg |-> NoDialog, report |-> NoReport,
     preview |-> NoPreview,
     obs |-> [w \in WIds |-> NoObs], ok |-> TRUE, exc |-> FALSE]

InitWith(d) ==
    \E t \in {load_config(Constructed(d))} :
    \E c \in {Renamed(Collect(t))} :
        /\ Bounded(t)
        /\ active_widgets = c.active_widgets
        /\ desktop_widgets = c.desktop_widgets
        /\ W = c.W
        /\ A = c.A
        /\ listbox = c.listbox
        /\ doc = c.doc
        /\ dlg = c.dlg
        /\ report = c.report
        /\ preview = c.preview
        /\ obs = c.obs
        /\ toast = "none"

\* the state after WidgetManager(): the file is absent or holds any document
Init == \E d \in {NoFile} \cup Docs : InitWith(d)

\* the first start of the program: no layout file yet
InitFresh == InitWith(NoFile)

\* a message box of a timer is open: it takes the input of the whole program
BoxOpen == \E w \in WIds : W[w].box

\* the main window takes input: no dialog or message box holds it, and the
\* pointer is not held down on an item of the preview
MainUsable == ~dlg.open /\ ~BoxOpen /\ preview.dragging = 0

\* the desktop window of widget w takes input
WindowUsable(w) == MainUsable /\ w \in Range(active_widgets) /\ IsPinned(cur, w)

Selections == 0..Len(listbox)

\* the rows of the list: a selection that is there
Rows == 1..Len(listbox)

CreateWidget(type) ==
    /\ MainUsable
    /\ Len(active_widgets) < MaxActive
    /\ Becomes(create_widget(cmd, type))

PinSelected(sel) == MainUsable /\ Becomes(pin_selected_widget(cmd, sel))

UnpinSelected(sel) == MainUsable /\ Becomes(unpin_selected_widget(cmd, sel))

RemoveSelected(sel) == MainUsable /\ Becomes(remove_widget(cmd, sel))

SaveLayout == MainUsable /\ Becomes(save_config(cmd))

LoadLayout == MainUsable /\ Becomes(load_config(cmd))

\* the file is written or deleted outside the program
ExternalWrite(d) ==
    /\ doc # d
    /\ doc' = d
    /\ UNCHANGED <<active_widgets, desktop_widgets, W, A, listbox, dlg, report, preview, obs,
                   toast>>

Tick(w) == W[w].pending > 0 /\ Becomes(tick(cur, w))

CloseTimesUp(w) == W[w].box /\ Becomes(close_times_up(cur, w))

StartTimer(w, text) ==
    /\ WindowUsable(w)
    /\ W[w].type = "Timer"
    /\ Becomes(start_timer(cmd, w, text))

StopTimer(w) ==
    /\ WindowUsable(w)
    /\ W[w].type = "Timer"
    /\ Becomes(stop_timer(cmd, w))

AddTask(w, text) ==
    /\ WindowUsable(w)
    /\ W[w].type = "Todo List"
    /\ Becomes(add_task(cmd, w, text))

ToggleTask(w, index) ==
    /\ WindowUsable(w)
    /\ W[w].type = "Todo List"
    /\ Becomes(toggle_task(cmd, w, index))

DeleteTask(w, index) ==
    /\ WindowUsable(w)
    /\ W[w].type = "Todo List"
    /\ Becomes(delete_task(cmd, w, index))

DragWindow(w, dx, dy) ==
    /\ WindowUsable(w)
    /\ A[W[w].desktop_widget].win_x + dx <= MaxCoord
    /\ A[W[w].desktop_widget].win_y + dy <= MaxCoord
    /\ Becomes(do_drag(cmd, W[w].desktop_widget, dx, dy))

\* the preview window takes input
PreviewUsable == preview.window /\ ~dlg.open /\ ~BoxOpen

\* the pointer is free: no button is held down on an item of the preview
PointerFree == preview.dragging = 0

OpenPreview == MainUsable /\ Becomes(open_desktop_preview(cmd))

ClosePreview == PreviewUsable /\ PointerFree /\ Becomes(close_preview(cmd))

PreviewPress(target) ==
    /\ PreviewUsable
    /\ PointerFree
    /\ target \in 0..Len(preview.items)
    /\ Becomes(pointer_press(cmd, target))

PreviewMove(mx, my) == PreviewUsable /\ Becomes(pointer_move(cmd, mx, my))

PreviewRelease == PreviewUsable /\ Becomes(pointer_release(cmd))

ApplyPositions == PreviewUsable /\ PointerFree /\ Becomes(apply_preview_positions(cmd))

ResetPositions == PreviewUsable /\ PointerFree /\ Becomes(reset_preview_positions(cmd))

\* one dialog at a time: the next one opens when the callbacks of the last
\* one have run
Customize(sel) ==
    /\ MainUsable
    /\ dlg.previews = 0
    /\ Becomes(customize_widget(cmd, sel))

DialogEdit(field, text) ==
    /\ dlg.open
    /\ ~BoxOpen
    /\ Becomes(dialog_edit(cmd, field, text))

DialogApply == dlg.open /\ ~BoxOpen /\ Becomes(apply_changes(cmd))

DialogCancel == dlg.open /\ ~BoxOpen /\ Becomes(dialog_cancel(cmd))

PreviewFire == dlg.previews > 0 /\ Becomes(preview_fire(cur))

----------------------------------------------------------------------------
(* Specifications *)

\* one timer on the desktop: its buttons and its refresh callback
NextTimer ==
    \/ (active_widgets = <<>> /\ CreateWidget("Timer"))
    \/ \E w \in WIds, text \in MinuteTexts : StartTimer(w, text)
    \/ \E w \in WIds : StopTimer(w)
    \/ \E w \in WIds : Tick(w)
    \/ \E w \in WIds : CloseTimesUp(w)

SpecTimer == InitFresh /\ [][NextTimer]_vars

\* the commands of the main window, the desktop windows and the dialog, with
\* the callbacks of the event loop
Next ==
    \/ \E type \in widget_types : CreateWidget(type)
    \/ \E sel \in Selections : PinSelected(sel)
    \/ \E sel \in Selections : UnpinSelected(sel)
    \/ \E sel \in Selections : RemoveSelected(sel)
    \/ SaveLayout
    \/ LoadLayout
    \/ \E d \in {NoFile} \cup Docs : ExternalWrite(d)
    \/ \E w \in WIds : Tick(w)
    \/ \E w \in WIds : CloseTimesUp(w)
    \/ \E w \in WIds, text \in MinuteTexts : StartTimer(w, text)
    \/ \E w \in WIds : StopTimer(w)
    \/ \E w \in WIds, text \in TaskTexts : AddTask(w, text)
    \/ \E w \in WIds, index \in 0..MaxTasks : ToggleTask(w, index)
    \/ \E w \in WIds, index \in 0..MaxTasks : DeleteTask(w, index)
    \/ \E w \in WIds, dx \in DragDeltas, dy \in DragDeltas : DragWindow(w, dx, dy)
    \/ \E sel \in Selections : Customize(sel)
    \/ \E field \in {"width", "height", "font_size"}, text \in DimTexts :
           DialogEdit(field, text)
    \/ DialogApply
    \/ DialogCancel
    \/ PreviewFire

Spec == Init /\ [][Next]_vars

\* layouts of to-do lists: they are created, pinned, unpinned and dragged, and
\* the layout is saved and loaded
NextLayout ==
    \/ CreateWidget("Todo List")
    \/ \E sel \in Rows : PinSelected(sel)
    \/ \E sel \in Rows : UnpinSelected(sel)
    \/ SaveLayout
    \/ LoadLayout
    \/ \E w \in WIds : DragWindow(w, 30, 30)

SpecLayout == InitFresh /\ [][NextLayout]_vars

\* the program starts with any document in the layout file, and the user
\* creates and unpins widgets and loads the file again
NextLoad ==
    \/ CreateWidget("Todo List")
    \/ \E sel \in Rows : UnpinSelected(sel)
    \/ LoadLayout

SpecLoad == Init /\ [][NextLoad]_vars

\* one to-do list or one timer: its content, and the pin and unpin of the main
\* window
NextContent ==
    \/ \E type \in {"Todo List", "Timer"} : active_widgets = <<>> /\ CreateWidget(type)
    \/ \E w \in WIds : StartTimer(w, str(1))
    \/ \E w \in WIds : StopTimer(w)
    \/ \E w \in WIds : Tick(w)
    \/ \E w \in WIds : CloseTimesUp(w)
    \/ \E w \in WIds, text \in TaskTexts : AddTask(w, text)
    \/ \E w \in WIds, index \in TaskIndexes : ToggleTask(w, index)
    \/ \E w \in WIds, index \in TaskIndexes : DeleteTask(w, index)
    \/ \E sel \in Rows : PinSelected(sel)
    \/ \E sel \in Rows : UnpinSelected(sel)

SpecContent == InitFresh /\ [][NextContent]_vars

\* one to-do list, dragged on the desktop, and its customization dialog
NextDialog ==
    \/ (active_widgets = <<>> /\ CreateWidget("Todo List"))
    \/ \E sel \in Rows : Customize(sel)
    \/ \E field \in {"width", "height", "font_size"}, text \in {str(90), <<"a", "b", "c">>} :
           DialogEdit(field, text)
    \/ DialogApply
    \/ DialogCancel
    \/ PreviewFire
    \/ \E w \in WIds : DragWindow(w, 30, 30)

SpecDialog == InitFresh /\ [][NextDialog]_vars

\* the buttons of the main window that create, pin, unpin and remove
NextPin ==
    \/ CreateWidget("Todo List")
    \/ \E sel \in Selections : PinSelected(sel)
    \/ \E sel \in Selections : UnpinSelected(sel)
    \/ \E sel \in Selections : RemoveSelected(sel)

SpecPin == InitFresh /\ [][NextPin]_vars

\* a layout file with one pinned to-do list
TodoFile ==
    [kind |-> "json",
     widgets |-> <<[type |-> "Todo List", name |-> <<"Todo List", 1>>,
                    config |-> get_default_config("Todo List"),
                    desktop_x |-> 130, desktop_y |-> 160, pinned |-> TRUE]>>]

\* one widget at a time is created, pinned, unpinned, removed and customized,
\* with the live preview of the dialog, and the layout file is loaded
NextRepin ==
    \/ (active_widgets = <<>> /\ CreateWidget("Todo List"))
    \/ \E sel \in Rows : PinSelected(sel)
    \/ \E sel \in Rows : UnpinSelected(sel)
    \/ \E sel \in Rows : RemoveSelected(sel)
    \/ \E sel \in Rows : Customize(sel)
    \/ DialogEdit("width", str(90))
    \/ DialogApply
    \/ DialogCancel
    \/ PreviewFire
    \/ LoadLayout

SpecRepin == (\E d \in {NoFile, TodoFile} : InitWith(d)) /\ [][NextRepin]_vars

\* a layout file with one pinned timer
TimerFile ==
    [kind |-> "json",
     widgets |-> <<[type |-> "Timer", name |-> <<"Timer", 1>>,
                    config |-> get_default_config("Timer"),
                    desktop_x |-> 130, desktop_y |-> 160, pinned |-> TRUE]>>]

\* no widget object is left, on the screen or in a scheduled callback
Vacant == \A w \in WIds : W[w] = FreeW

\* every widget object is in the manager's list: no callback of a removed one
\* is scheduled
Settled == \A w \in WIds : W[w] # FreeW => w \in Range(active_widgets)

\* one clock or timer at a time: it refreshes itself while it is created,
\* pinned, unpinned and removed, and while the layout file is loaded
NextRefresh ==
    \/ \E type \in {"Clock", "Timer"} : Vacant /\ CreateWidget(type)
    \/ \E sel \in Rows : PinSelected(sel)
    \/ \E sel \in Rows : UnpinSelected(sel)
    \/ \E sel \in Rows : RemoveSelected(sel)
    \/ (Settled /\ LoadLayout)
    \/ \E w \in WIds : Settled /\ StartTimer(w, str(1))
    \/ \E w \in WIds : Tick(w)
    \/ \E w \in WIds : CloseTimesUp(w)

SpecRefresh == (\E d \in {NoFile, TimerFile} : InitWith(d)) /\ [][NextRefresh]_vars

\* the moves of the pointer on the canvas, in canvas pixels
Moves == {<<35, 20>>}

\* to-do widgets on the desktop and in the preview: they are pinned, unpinned,
\* dragged on the desktop and in the preview, customized, and their positions
\* applied and reset
NextPreview ==
    \/ (active_widgets = <<>> /\ CreateWidget("Todo List"))
    \/ \E sel \in Rows : PinSelected(sel)
    \/ \E sel \in Rows : UnpinSelected(sel)
    \/ \E w \in WIds : DragWindow(w, 30, 30)
    \/ OpenPreview
    \/ ClosePreview
    \/ \E target \in 0..MaxIds : PreviewPress(target)
    \/ \E m \in Moves : PreviewMove(m[1], m[2])
    \/ PreviewRelease
    \/ ApplyPositions
    \/ ResetPositions
    \/ \E sel \in Rows : Len(desktop_widgets) <= 1 /\ Customize(sel)
    \/ DialogApply
    \/ DialogCancel

SpecPreview == InitFresh /\ [][NextPreview]_vars

\* to-do widgets are created, then the preview is opened: a widget is removed
\* and another one customized while the preview shows them
NextEntries ==
    \/ (/\ Len(active_widgets) < MaxActive
        /\ preview.canvas = "none"
        /\ CreateWidget("Todo List"))
    \/ \E sel \in Rows : RemoveSelected(sel)
    \/ OpenPreview
    \/ \E sel \in Rows : Customize(sel)
    \/ DialogApply
    \/ ApplyPositions
    \/ ResetPositions

SpecEntries == InitFresh /\ [][NextEntries]_vars

\* the kinds of message _show_toast puts on the screen
ToastKinds == {"success", "error", "warning", "info"}

\* the call of _show_toast a handler stands in once it has come to the state
\* reached: the handlers call it on their last line, apply_changes calls it
\* on the line before dialog.destroy() and on the last line of its except
\* clause
ToastOf(command, reached) ==
    IF reached.report.kind \notin ToastKinds THEN "none"
    ELSE IF command = "apply_changes" /\ reached.report.kind = "error"
         THEN "apply_changes except"
         ELSE command

\* the statements of a handler that follow its call of _show_toast
after_toast(s, showing) ==
    IF showing = "apply_changes" THEN apply_changes_after_toast(s) ELSE s

\* a handler runs up to its call of _show_toast; the loop of toast.update()
\* then runs what the event loop holds
Shows(command, reached) ==
    /\ toast = "none"
    /\ \E t \in {reached} : Step(t, ToastOf(command, t))

ToastCreate(type) ==
    /\ MainUsable
    /\ Len(active_widgets) < MaxActive
    /\ Shows("create_widget", create_widget(cmd, type))

ToastPin(sel) == MainUsable /\ Shows("pin_selected_widget", pin_selected_widget(cmd, sel))

ToastUnpin(sel) ==
    MainUsable /\ Shows("unpin_selected_widget", unpin_selected_widget(cmd, sel))

ToastRemove(sel) == MainUsable /\ Shows("remove_widget", remove_widget(cmd, sel))

ToastLoad == MainUsable /\ Shows("load_config", load_config(cmd))

ToastCustomize(sel) ==
    /\ MainUsable
    /\ dlg.previews = 0
    /\ Shows("customize_widget", customize_widget(cmd, sel))

ToastApply == dlg.open /\ ~BoxOpen /\ Shows("apply_changes", apply_changes_until_toast(cmd))

\* _show_toast returns and the handler runs its last statements
ToastReturns == toast # "none" /\ Step(after_toast(cur, toast), "none")

\* one clock at a time: the commands of the manager stand in their toast
\* while the callbacks of the clock run, and the user waits for the toast to
\* fade before the next command
NextToast ==
    \/ (Vacant /\ ToastCreate("Clock"))
    \/ \E sel \in Rows : ToastPin(sel)
    \/ \E sel \in Rows : ToastUnpin(sel)
    \/ \E sel \in Rows : ToastRemove(sel)
    \/ (Settled /\ ToastLoad)
    \/ \E sel \in Rows : ToastCustomize(sel)
    \/ ToastApply
    \/ ToastReturns
    \/ \E w \in WIds : Tick(w)

SpecToast == (\E d \in {NoFile, TimerFile} : InitWith(d)) /\ [][NextToast]_vars

\* one to-do list and its customization dialog, which is left by Cancel only:
\* nothing is ever applied
NextCancel ==
    \/ (active_widgets = <<>> /\ CreateWidget("Todo List"))
    \/ \E sel \in Rows : PinSelected(sel)
    \/ \E sel \in Rows : UnpinSelected(sel)
    \/ \E sel \in Rows : Customize(sel)
    \/ \E field \in {"width", "height", "font_size"}, text \in {str(90), <<"a", "b", "c">>} :
           DialogEdit(field, text)
    \/ DialogCancel
    \/ PreviewFire

SpecCancel == InitFresh /\ [][NextCancel]_vars

\* one timer on the desktop that is started only while it is idle: a
\* countdown is not started again before it ends
NextCountdown ==
    \/ (active_widgets = <<>> /\ CreateWidget("Timer"))
    \/ \E w \in WIds, text \in MinuteTexts : ~W[w].timer_active /\ StartTimer(w, text)
    \/ \E w \in WIds : StopTimer(w)
    \/ \E w \in WIds : Tick(w)
    \/ \E w \in WIds : CloseTimesUp(w)

\* the state the program is in differs from c
Differs(c) ==
    \/ c.active_widgets # active_widgets
    \/ c.desktop_widgets # desktop_widgets
    \/ \E w \in WIds : c.W[w] # W[w]
    \/ \E a \in AIds : c.A[a] # A[a]
    \/ c.listbox # listbox
    \/ c.doc # doc
    \/ c.dlg # dlg
    \/ c.report # report
    \/ c.preview # preview
    \/ \E w \in WIds : c.obs[w] # obs[w]

\* a callback of widget w is scheduled and its run changes the state: the
\* step <<Tick(w)>>_vars is enabled
TickDue(w) ==
    /\ W[w].pending > 0
    /\ \E t \in {tick(cur, w)} : Bounded(t) /\ Differs(Renamed(Collect(t)))

\* the event loop runs a scheduled callback when it is due: weak fairness of
\* Tick(w), with its enabling condition written as TickDue(w)
SpecCountdown ==
    /\ InitFresh
    /\ [][NextCountdown]_vars
    /\ \A w \in WIds : []<>(~TickDue(w)) \/ []<><<Tick(w)>>_vars

----------------------------------------------------------------------------
(* Timer claims *)

Timers == {w \in WIds : W[w].type = "Timer"}

\* the observer's case of C1: a start(n), n >= 1, then k refresh ticks and no
\* other start or stop
AfterTicks(w, k) == obs[w].started /\ obs[w].n >= 1 /\ obs[w].ticks = k

\* C1 as stated: after start(n), n >= 1, and exactly n*60 refresh ticks the
\* timer has remaining = 0, is inactive and has emitted one "time's up"
C1_DoneAfterN60Ticks ==
    \A w \in Timers :
        AfterTicks(w, obs[w].n * 60) =>
            /\ W[w].remaining_time = 0
            /\ ~W[w].timer_active
            /\ obs[w].notes = 1

\* C1 amended: after start(n), n >= 1, and exactly n*60 refresh ticks remaining
\* is 0 and the timer is still active with no notification; the next tick, the
\* (n*60 + 1)-th, makes it inactive with exactly one "time's up" notification
C1_DoneAfterN60Plus1Ticks ==
    \A w \in Timers :
        /\ AfterTicks(w, obs[w].n * 60) =>
               /\ W[w].remaining_time = 0
               /\ W[w].timer_active
               /\ obs[w].notes = 0
        /\ AfterTicks(w, (obs[w].n * 60) + 1) =>
               /\ W[w].remaining_time = 0
               /\ ~W[w].timer_active
               /\ obs[w].notes = 1

C1_Witness ==
    \E w \in Timers :
        /\ AfterTicks(w, (obs[w].n * 60) + 1)
        /\ obs[w].n = MaxMinutes
        /\ obs[w].notes = 1

\* C2 as stated: a start with a minute value of 0 or less is rejected with an
\* error and leaves remaining and active as they were
C2_NonPositiveStartRejected ==
    [][\A w \in WIds, text \in MinuteTexts :
          (int(text).ok /\ int(text).val <= 0 /\ StartTimer(w, text)) =>
              /\ W'[w].remaining_time = W[w].remaining_time
              /\ W'[w].timer_active = W[w].timer_active
              /\ report'.kind = "messagebox"]_vars

\* C3: a start with text that int() refuses shows the error box and leaves
\* remaining and active as they were
C3_NonNumericStartRejected ==
    [][\A w \in WIds, text \in MinuteTexts :
          (~int(text).ok /\ StartTimer(w, text)) =>
              /\ W'[w].remaining_time = W[w].remaining_time
              /\ W'[w].timer_active = W[w].timer_active
              /\ report'.kind = "messagebox"]_vars

\* the last command was a refused start, in the middle of a countdown
C3_Witness ==
    \E w \in Timers :
        /\ report.kind = "messagebox"
        /\ W[w].timer_active
        /\ W[w].remaining_time > 0
        /\ obs[w].ticks > 0

----------------------------------------------------------------------------
(* Layout claims *)

\* what a layout says of one widget
entry(s, w) ==
    [type |-> s.W[w].type, name |-> s.W[w].name, config |-> s.W[w].config,
     pinned |-> IsPinned(s, w),
     position |-> IF IsPinned(s, w)
                  THEN <<s.A[s.W[w].desktop_widget].x, s.A[s.W[w].desktop_widget].y>>
                  ELSE <<>>]

\* the sequence of {type, name, config, pinned, position} of the collection
Layout == [i \in 1..Len(active_widgets) |-> entry(cur, active_widgets[i])]

\* a record with the three fields load_config reads without a default
Complete(r) == {"type", "name", "config"} \subseteq DOMAIN r

\* the records of a known type, in the order of the document
Known(records) == SelectSeq(records, LAMBDA r : r.type \in widget_types)

\* what a record of a document says of its widget: an empty config stands for
\* the defaults of the type, a pinned record without coordinates for (100, 100)
Built(r) ==
    [type |-> r.type, name |-> r.name,
     config |-> IF r.config = EmptyConfig THEN get_default_config(r.type) ELSE r.config,
     pinned |-> get(r, "pinned", FALSE),
     position |-> IF get(r, "pinned", FALSE)
                  THEN <<get(r, "desktop_x", 100), get(r, "desktop_y", 100)>>
                  ELSE <<>>]

FromDocument(records) == [i \in 1..Len(Known(records)) |-> Built(Known(records)[i])]

Loaded == report = [kind |-> "success", text |-> "Layout loaded successfully!"]

\* an object of an earlier layout that a scheduled callback keeps alive
Lingering(w) == w \notin Range(active_widgets) /\ W[w] # FreeW /\ ~W[w].fresh

\* C4: a load right after a save (the file holds what save writes for the
\* current state) succeeds and yields the same sequence of {type, name, config,
\* pinned, position}
C4_SaveThenLoadKeepsLayout ==
    [][(doc = save_config(cur).doc /\ LoadLayout) =>
           (Layout' = Layout /\ report'.kind = "success")]_vars

\* a loaded layout that is the saved one: a widget dragged twice and an
\* unpinned one
C4_Witness ==
    /\ Loaded
    /\ doc = save_config(cur).doc
    /\ Len(active_widgets) = 2
    /\ Layout[1].position = <<160, 160>>
    /\ ~Layout[2].pinned
    /\ \A i \in 1..2 : W[active_widgets[i]].fresh

\* C7 as stated: a load that reports a failure leaves the collection, the
\* attachments and the pinned list as they were
C7_FailedLoadLeavesState ==
    [][(LoadLayout /\ report'.kind = "error") =>
           /\ active_widgets' = active_widgets
           /\ desktop_widgets' = desktop_widgets
           /\ Layout' = Layout
           /\ \A a \in AIds : A'[a].desktop_window = A[a].desktop_window]_vars

\* C8: the load of a document of complete records, some of an unknown type,
\* succeeds and yields the records of known type in document order
C8_UnknownTypesSkipped ==
    [][(/\ LoadLayout
        /\ doc.kind = "json"
        /\ \A i \in 1..Len(doc.widgets) : Complete(doc.widgets[i])
        /\ \E i \in 1..Len(doc.widgets) : doc.widgets[i].type \notin widget_types) =>
           (report'.kind = "success" /\ Layout' = FromDocument(doc.widgets))]_vars

\* a document with a gadget before a pinned timer was loaded over its own
\* earlier load
C8_Witness ==
    /\ Loaded
    /\ doc.kind = "json"
    /\ Len(doc.widgets) = 2
    /\ \A i \in 1..2 : Complete(doc.widgets[i])
    /\ doc.widgets[1].type \notin widget_types
    /\ Layout = <<Built(doc.widgets[2])>>
    /\ Layout[1].pinned
    /\ \E w \in WIds : Lingering(w)

\* C9: after a successful load the active widgets are those built from the
\* document, all of them new objects; every desktop window on the screen was
\* created by this load, and the pinned list holds only pinned attachments
\* created by this load
C9_LoadReplacesEverything ==
    [][(LoadLayout /\ report'.kind = "success") =>
           /\ Layout' = FromDocument(doc.widgets)
           /\ \A i \in 1..Len(active_widgets') : W'[active_widgets'[i]].fresh
           /\ \A a \in AIds : A'[a].desktop_window => A'[a].fresh
           /\ \A j \in 1..Len(desktop_widgets') :
                  A'[desktop_widgets'[j]].fresh /\ A'[desktop_widgets'[j]].is_pinned]_vars

\* two widgets were loaded, one pinned and one not, over a layout whose timer
\* object is still there
C9_Witness ==
    /\ Loaded
    /\ Len(active_widgets) = 2
    /\ Len(desktop_widgets) = 1
    /\ \E i, j \in 1..2 : Layout[i].pinned /\ ~Layout[j].pinned
    /\ \E w \in WIds : Lingering(w) /\ W[w].type = "Timer"

----------------------------------------------------------------------------
(* Content, dialog and position claims *)

\* the content state of the widgets of the collection
Content ==
    [i \in 1..Len(active_widgets) |->
        [tasks |-> W[active_widgets[i]].tasks,
         remaining_time |-> W[active_widgets[i]].remaining_time,
         timer_active |-> W[active_widgets[i]].timer_active]]

\* C5 as stated: neither the unpin nor the pin of a widget changes the content
\* state of a widget
C5_RepinKeepsContent ==
    [][\A sel \in Rows :
          (PinSelected(sel) \/ UnpinSelected(sel)) => Content' = Content]_vars

\* C6 as stated: an apply that reports invalid input leaves every field of the
\* config of the widget as it was
C6_InvalidApplyKeepsConfig ==
    [][(DialogApply /\ report'.kind = "error") =>
           W'[dlg.wi].config = W[dlg.wi].config]_vars

\* C10 as stated: where nothing is dragged, an attachment pinned by the last
\* command is at a position no other pinned attachment has
C10_InitialPositionDistinct ==
    \A a \in AIds :
        (A[a].fresh /\ A[a].is_pinned) =>
            \A b \in AIds \ {a} :
                A[b].is_pinned => <<A[a].x, A[a].y>> # <<A[b].x, A[b].y>>

\* C11: an apply with three valid numbers on a pinned widget leaves it pinned,
\* with its attachment at the (x, y) it had before the apply
C11_ApplyKeepsPosition ==
    [][(/\ DialogApply
        /\ int(dlg.width_var).ok /\ int(dlg.height_var).ok /\ int(dlg.font_size_var).ok
        /\ IsPinned(cur, dlg.wi)) =>
           \A w \in {dlg.wi} :
               /\ entry(cur, w)'.pinned
               /\ entry(cur, w)'.position = entry(cur, w).position]_vars

\* a dragged widget was re-pinned by an apply that set its width to 90
C11_Witness ==
    /\ report.text = "Widget customization applied successfully!"
    /\ \E w \in Range(active_widgets) :
           /\ IsPinned(cur, w)
           /\ A[W[w].desktop_widget].fresh
           /\ entry(cur, w).position = <<160, 160>>
           /\ W[w].config.width = 90

----------------------------------------------------------------------------
(* Pin, unpin and remove claims *)

\* the objects as a command finds them
Objects == [W |-> cmd.W, A |-> cmd.A]

\* C12: pin-selected on a pinned widget changes no widget, no attachment (its
\* position and its window) and no list, and shows the informational message
C12_PinPinnedIsNoOp ==
    [][\A sel \in Rows :
          (/\ sel <= Len(active_widgets)
           /\ IsPinned(cur, active_widgets[sel])
           /\ PinSelected(sel)) =>
              /\ active_widgets' = active_widgets
              /\ desktop_widgets' = desktop_widgets
              /\ W' = Objects.W
              /\ A' = Objects.A
              /\ report' = [kind |-> "info",
                            text |-> "Widget is already pinned to desktop!"]]_vars

\* the second of two pinned widgets was pinned again
C12_Witness ==
    /\ report.text = "Widget is already pinned to desktop!"
    /\ Len(active_widgets) = 2
    /\ \A i \in 1..2 : IsPinned(cur, active_widgets[i])
    /\ entry(cur, active_widgets[2]).position = <<130, 130>>

\* C13: unpin-selected on a widget that is not pinned changes no widget, no
\* attachment and no list, and shows the informational message
C13_UnpinUnpinnedIsNoOp ==
    [][\A sel \in Rows :
          (/\ UnpinSelected(sel)
           /\ sel <= Len(active_widgets)
           /\ ~IsPinned(cur, active_widgets[sel])) =>
              /\ active_widgets' = active_widgets
              /\ desktop_widgets' = desktop_widgets
              /\ W' = Objects.W
              /\ A' = Objects.A
              /\ report' = [kind |-> "info",
                            text |-> "Widget is not currently pinned to desktop."]]_vars

\* the unpin of a widget whose earlier unpin failed after its window was
\* destroyed: it still refers to its attachment, which is still in the list
C13_Witness ==
    /\ report.text = "Widget is not currently pinned to desktop."
    /\ \E w \in Range(active_widgets) :
           /\ W[w].desktop_widget # None
           /\ ~IsPinned(cur, w)
           /\ desktop_widgets # <<>>

\* the desktop windows on the screen
LiveWindows == {a \in AIds : A[a].desktop_window}

\* C14: no two desktop windows show the same instance, and every desktop window
\* is that of the pinned attachment of a widget of the collection
C14_OneWindowPerInstance ==
    /\ \A a, b \in LiveWindows :
           a # b => A[a].widget_instance # A[b].widget_instance
    /\ \A a \in LiveWindows :
           /\ A[a].is_pinned
           /\ A[a].widget_instance \in Range(active_widgets)
           /\ W[A[a].widget_instance].desktop_widget = a

\* a widget re-pinned by the dialog: its window is that of an attachment that
\* is not in the pinned list, where the attachment it replaced still is
C14_Witness ==
    \E a \in LiveWindows :
        /\ a \notin Range(desktop_widgets)
        /\ \E b \in Range(desktop_widgets) :
               /\ ~A[b].desktop_window
               /\ A[b].widget_instance = A[a].widget_instance

\* what the pinned list says of each of its attachments
PinnedList ==
    [j \in 1..Len(desktop_widgets) |->
        [x |-> A[desktop_widgets[j]].x, y |-> A[desktop_widgets[j]].y,
         is_pinned |-> A[desktop_widgets[j]].is_pinned,
         desktop_window |-> A[desktop_widgets[j]].desktop_window,
         name |-> W[A[desktop_widgets[j]].widget_instance].name]]

\* C15: the remove of a pinned widget destroys its window (one window fewer,
\* and the windows left are those of the other widgets), takes its attachment
\* out of the pinned list and the widget out of the collection, and leaves the
\* other widgets and attachments as they were
C15_RemoveReleasesAttachment ==
    [][\A sel \in Rows :
          (/\ sel <= Len(active_widgets)
           /\ IsPinned(cur, active_widgets[sel])
           /\ RemoveSelected(sel)) =>
              /\ Layout' = list_del(Layout, sel)
              /\ Content' = list_del(Content, sel)
              /\ \E j \in 1..Len(desktop_widgets) :
                     /\ desktop_widgets[j] = W[active_widgets[sel]].desktop_widget
                     /\ PinnedList' = list_del(PinnedList, j)
              /\ Cardinality(LiveWindows') = Cardinality(LiveWindows) - 1
              /\ \A a \in LiveWindows' :
                     W'[A'[a].widget_instance].desktop_widget = a]_vars

\* the first of two pinned widgets was removed: the second is left
C15_Witness ==
    /\ report.text = "Widget removed successfully!"
    /\ Len(active_widgets) = 1
    /\ Layout[1].name = <<"Todo List", 2>>
    /\ Layout[1].position = <<130, 130>>
    /\ Len(desktop_widgets) = 1
    /\ LiveWindows = {desktop_widgets[1]}

----------------------------------------------------------------------------
(* Refresh claims *)

\* the scheduled refresh callbacks of all widget objects
RECURSIVE PendingOf(_)
PendingOf(S) ==
    IF S = {} THEN 0
    ELSE LET w == Min(S) IN W[w].pending + PendingOf(S \ {w})

PendingTotal == PendingOf(WIds)

\* widget object w is there after its callback whatever the callback did
Held(w) == w \in Range(active_widgets) \/ dlg.wi = w \/ W[w].pending > 1

\* C20: a refresh callback that fires when the window of its widget is
\* destroyed changes no content state and schedules no further callback
C20_DestroyedWidgetStopsRefreshing ==
    [][\A w \in WIds :
          (Tick(w) /\ ~winfo_exists(cur, w)) =>
              /\ PendingTotal' = PendingTotal - 1
              /\ Content' = Content
              /\ BoxOpen' = BoxOpen
              /\ Held(w) =>
                     /\ W'[w].remaining_time = W[w].remaining_time
                     /\ W'[w].timer_active = W[w].timer_active
                     /\ W'[w].tasks = W[w].tasks
                     /\ W'[w].pending = W[w].pending - 1]_vars

\* a timer unpinned in the middle of its countdown: its callback has fired, no
\* other is scheduled, and the countdown stands where it was
C20_Witness ==
    \E w \in Range(active_widgets) :
        /\ W[w].type = "Timer"
        /\ W[w].built
        /\ ~IsPinned(cur, w)
        /\ W[w].pending = 0
        /\ W[w].timer_active
        /\ W[w].remaining_time \in 1..58

----------------------------------------------------------------------------
(* Preview claims *)

\* the entries of the preview
Items == 1..Len(preview.items)

\* the integer position of the entry at place i
ItemPosition(i) ==
    <<int_of_halves(preview.items[i].real_x2), int_of_halves(preview.items[i].real_y2)>>

\* the stored position of the attachment of a pinned widget
AttachmentPosition(w) == <<A[W[w].desktop_widget].x, A[W[w].desktop_widget].y>>

\* where every DesktopWidget is, by its fields and by its window
Positions ==
    [a \in AIds |-> [x |-> A[a].x, y |-> A[a].y, win_x |-> A[a].win_x,
                     win_y |-> A[a].win_y, is_pinned |-> A[a].is_pinned]]

\* C16: while the preview is open, the integer position of the entry of every
\* pinned widget is the position of its attachment, after every action of
\* the user
C16_PreviewTracksAttachment ==
    preview.window =>
        \A i \in Items :
            IsPinned(cur, preview.items[i].widget_info) =>
                ItemPosition(i) = AttachmentPosition(preview.items[i].widget_info)

\* C17: a move of the pointer with a drag target writes the truncated real
\* position of the entry to the attachment of a pinned widget and writes no
\* attachment of a widget that is not pinned; a move with no target changes
\* nothing
C17_PreviewDragWritesThrough ==
    [][\A m \in Moves :
          PreviewMove(m[1], m[2]) =>
              IF preview.dragging = 0
              THEN /\ preview' = preview
                   /\ Positions' = Positions
                   /\ UNCHANGED <<active_widgets, desktop_widgets, listbox, doc, dlg>>
              ELSE \A i \in {preview.dragging} : \A w \in {preview.items[i].widget_info} :
                       IF IsPinned(cur, w)
                       THEN /\ IsPinned(cur, w)'
                            /\ AttachmentPosition(w)' = ItemPosition(i)'
                       ELSE Positions' = Positions]_vars

\* the pointer drags the entry of a pinned widget: the real position is at a
\* half pixel and the attachment at the pixel below
C17_Witness ==
    /\ preview.dragging # 0
    /\ preview.pointer_x # 0
    /\ \E w \in {preview.items[preview.dragging].widget_info} :
           /\ IsPinned(cur, w)
           /\ preview.items[preview.dragging].real_x2 % 2 = 1
           /\ AttachmentPosition(w) = ItemPosition(preview.dragging)

\* C18: the stored position of every pinned attachment is the position of its
\* desktop window
C18_PositionIsWindowPosition ==
    \A a \in AIds :
        A[a].is_pinned => /\ A[a].desktop_window
                          /\ A[a].x = A[a].win_x
                          /\ A[a].y = A[a].win_y

\* a window that the preview moved: it is at the default position after a
\* reset, or off the positions a pin or a desktop drag leads to
C18_Witness ==
    \E a \in AIds :
        /\ A[a].is_pinned
        /\ A[a].win_x = A[a].x
        /\ \/ report.text = "Widget positions reset to default!" /\ A[a].x = default_x(1)
           \/ preview.dragging # 0 /\ A[a].x % 10 # 0

\* C19: during one drag the real position of the entry is its real position
\* at the press plus the whole move of the pointer divided by the scale
C19_DragIsAdditive ==
    preview.dragging # 0 =>
        /\ preview.items[preview.dragging].real_x2 =
               preview.press.real_x2 + HalvesPerDx * preview.pointer_x
        /\ preview.items[preview.dragging].real_y2 =
               preview.press.real_y2 + HalvesPerDy * preview.pointer_y

\* two moves of the pointer in one drag
C19_Witness ==
    /\ preview.dragging # 0
    /\ preview.pointer_x = 70
    /\ preview.pointer_y = 40
    /\ preview.items[preview.dragging].real_x2 = preview.press.real_x2 + 210
    /\ preview.items[preview.dragging].real_y2 = preview.press.real_y2 + 160

----------------------------------------------------------------------------
(* To-do claims *)

\* the to-do widgets whose window takes input
Todos == {w \in WIds : WindowUsable(w) /\ W[w].type = "Todo List"}

C22_ToggleTwiceRestores ==
    \A w \in Todos : \A index \in TaskIndexes :
        \A tasks \in {W[w].tasks} :
        \A once \in {toggle_task(cmd, w, index)} :
        \A twice \in {toggle_task(once, w, index)} :
            IF 0 <= index /\ index < Len(tasks)
            THEN /\ \A v \in WIds : twice.W[v] = cmd.W[v]
                 /\ \A v \in WIds \ {w} : once.W[v] = cmd.W[v]
                 /\ Len(once.W[w].tasks) = Len(tasks)
                 /\ \A j \in 1..Len(tasks) :
                        /\ once.W[w].tasks[j].text = tasks[j].text
                        /\ once.W[w].tasks[j].completed =
                               IF j = index + 1 THEN ~tasks[j].completed
                               ELSE tasks[j].completed
            ELSE /\ \A v \in WIds : once.W[v] = cmd.W[v]
                 /\ \A v \in WIds : delete_task(cmd, w, index).W[v] = cmd.W[v]

\* one of two tasks is toggled
C22_Witness ==
    \E w \in Todos :
        /\ Len(W[w].tasks) = 2
        /\ W[w].tasks[1].completed
        /\ ~W[w].tasks[2].completed

\* the text is blanks only
IsBlank(text) == \A i \in 1..Len(text) : text[i] = " "

\* text is kept with blanks before and after it and has none at its own ends
IsStrippedOf(kept, text) ==
    /\ kept # <<>>
    /\ kept[1] # " "
    /\ kept[Len(kept)] # " "
    /\ \E i \in 0..Len(text) :
           /\ i + Len(kept) <= Len(text)
           /\ SubSeq(text, i + 1, i + Len(kept)) = kept
           /\ IsBlank(SubSeq(text, 1, i))
           /\ IsBlank(SubSeq(text, i + Len(kept) + 1, Len(text)))

\* C23: add_task with an empty or blank text leaves the tasks as they are;
\* with another text one task is added at the end, its text the stripped
\* text, not completed
C23_AddAppendsStripped ==
    [][\A w \in WIds : \A text \in TaskTexts :
          AddTask(w, text) =>
              IF IsBlank(text)
              THEN W'[w].tasks = W[w].tasks
              ELSE /\ Len(W'[w].tasks) = Len(W[w].tasks) + 1
                   /\ SubSeq(W'[w].tasks, 1, Len(W[w].tasks)) = W[w].tasks
                   /\ ~W'[w].tasks[Len(W'[w].tasks)].completed
                   /\ IsStrippedOf(W'[w].tasks[Len(W'[w].tasks)].text, text)]_vars

\* the text typed with blanks around it was added after another task
C23_Witness ==
    \E w \in Todos :
        /\ Len(W[w].tasks) = 2
        /\ W[w].tasks[2] = [text |-> <<"b">>, completed |-> FALSE]

----------------------------------------------------------------------------
(* Claims on the buttons of the preview *)

\* the default position of the entry at place i
DefaultPosition(i) == <<default_x(i), default_y(i)>>

\* the entry at place i is at the whole pixel p
ItemIsAt(i, p) ==
    preview.items[i].real_x2 = 2 * p[1] /\ preview.items[i].real_y2 = 2 * p[2]

\* C24: after reset positions every entry of the preview is at its default
\* staggered position, pinned or not, and the attachment of every pinned
\* widget of an entry is at the default position of that entry
C24_ResetSetsDefaults ==
    [][ResetPositions =>
          \A i \in Items :
              /\ ItemIsAt(i, DefaultPosition(i))'
              /\ \A w \in {preview.items[i].widget_info} :
                     IsPinned(cur, w)' => AttachmentPosition(w)' = DefaultPosition(i)]_vars

\* C25: after apply positions the attachment of every pinned widget of an
\* entry is at the truncated real position of that entry, a second apply
\* changes nothing, and no entry has moved
C25_ApplyWritesItems ==
    [][ApplyPositions =>
          /\ preview'.items = preview.items
          /\ \A i \in Items : \A w \in {preview.items[i].widget_info} :
                 IsPinned(cur, w)' => AttachmentPosition(w)' = ItemPosition(i)'
          /\ \A again \in {apply_preview_positions(cur)'} :
                 \A a \in AIds : again.A[a] = A'[a]]_vars

\* C26: a release clears the drag target and changes no real position and no
\* attachment position; with no target a move of the pointer changes neither,
\* and only a press on an entry gives a target again
C26_ReleaseEndsTheDrag ==
    [][/\ PreviewRelease =>
              /\ preview'.dragging = 0
              /\ preview'.items = preview.items
              /\ Positions' = Positions
       /\ \A m \in Moves :
              (preview.dragging = 0 /\ PreviewMove(m[1], m[2])) =>
                  /\ preview'.dragging = 0
                  /\ preview'.items = preview.items
                  /\ Positions' = Positions
       /\ (preview.dragging = 0 /\ preview'.dragging # 0) =>
              \E target \in Items : PreviewPress(target)]_vars

\* the button went up after a move: the entry stays at its half pixel
C26_Witness ==
    /\ preview.window
    /\ preview.dragging = 0
    /\ preview.drag_start_x # 0
    /\ \E i \in Items : preview.items[i].real_x2 % 2 = 1

\* C27: while the preview window is closed no entry is tracked, and no
\* command fails on the canvas that went with the window
C27_ItemsOnlyWhileOpen ==
    ~preview.window =>
        /\ preview.items = <<>>
        /\ report # [kind |-> "exception", text |-> "TclError"]

----------------------------------------------------------------------------
(* Claims on the turns of the event loop *)

\* a handler stands in its toast and has a statement that changes the state
\* still to run; dialog.destroy() of apply_changes is the only statement any
\* handler has after a toast
Unfinished == toast # "none" /\ after_toast(cur, toast).dlg # dlg

(* C28: the commands that change the collection are atomic for the event
   loop: no refresh callback and no other command runs between the first and
   the last change of state made by create, remove, pin, unpin, the apply of
   the customization dialog or load, because the events a toast lets in run
   only when the command has made all its changes.  So the only step out of
   a handler that is not finished is the return of its toast. *)
C28_CommandsAreAtomic == [][Unfinished => toast' = "none"]_vars

\* C29: a widget has at most one refresh callback scheduled at any time: a
\* re-pin (unpin followed by pin, the apply or the live preview of the dialog)
\* never leaves two chains of update_content running
C29_OneRefreshChain == \A w \in WIds : W[w].pending <= 1

----------------------------------------------------------------------------
(* Claims on the list of pinned attachments *)

\* the attachments of the active widgets that are pinned
PinnedAttachments ==
    {W[w].desktop_widget : w \in {v \in Range(active_widgets) : IsPinned(cur, v)}}

\* C30: desktop_widgets holds exactly the attachments of the active widgets
\* that are pinned: no entry of it is unpinned or belongs to no active widget,
\* and no pinned attachment is missing from it, also after the re-pins of the
\* dialog's apply and live preview
C30_PinnedListIsExact == Range(desktop_widgets) = PinnedAttachments

----------------------------------------------------------------------------
(* Claims on the commands that must complete *)

(* C31: unpin-selected on a pinned widget completes: the success message is
   shown, the widget has no attachment afterwards and its desktop window is
   gone, also when the dialog's apply or live preview re-pinned the widget
   before *)
C31_UnpinPinnedCompletes ==
    [][\A sel \in Rows :
          (/\ sel <= Len(active_widgets)
           /\ IsPinned(cur, active_widgets[sel])
           /\ UnpinSelected(sel)) =>
              /\ report'.kind = "success"
              /\ W'[active_widgets'[sel]].desktop_widget = None
              /\ Cardinality(LiveWindows') = Cardinality(LiveWindows) - 1]_vars

(* C32: a dialog closed with Cancel commits nothing: where no dialog was ever
   applied, a widget whose dialog is closed has the config it was created
   with, whatever was typed into the dialog and shown by the live preview *)
C32_CancelCommitsNothing ==
    ~dlg.open =>
        \A w \in Range(active_widgets) : W[w].config = get_default_config(W[w].type)

\* the three entries of the dialog hold numbers
ValidEntries ==
    /\ int(dlg.width_var).ok
    /\ int(dlg.height_var).ok
    /\ int(dlg.font_size_var).ok

\* the config the entries of the dialog spell
EnteredConfig ==
    [width |-> int(dlg.width_var).val, height |-> int(dlg.height_var).val,
     font_size |-> int(dlg.font_size_var).val]

(* C33: the apply of a dialog whose entries hold numbers completes: the
   config of the widget instance has the values entered, the success message
   is shown and the dialog is closed, also when a live preview ran in the
   dialog before and when the preview window was opened and closed before *)
C33_ValidApplyCompletes ==
    [][(dlg.open /\ ValidEntries /\ DialogApply) =>
          /\ report'.kind = "success"
          /\ ~dlg'.open
          /\ \A i \in 1..Len(active_widgets) :
                 active_widgets[i] = dlg.wi =>
                     W'[active_widgets'[i]].config = EnteredConfig]_vars

----------------------------------------------------------------------------
(* Claims on the end of a countdown *)

\* a start(n), n >= 1, is under way on timer w: no stop came after it
Started(w) == obs[w].started /\ obs[w].n >= 1

(* C34: after start(n), n >= 1, on a pinned timer with no later start, stop
   or unpin, the timer eventually is inactive with its "time's up"
   notification emitted, and the notification is emitted once: never a second
   one for the same start, whatever ticks follow *)
C34_TimesUpOnce ==
    \A w \in WIds :
        /\ Started(w) ~> (~Started(w) \/ (~W[w].timer_active /\ obs[w].notes = 1))
        /\ [](Started(w) => obs[w].notes <= 1)

\* the longest countdown has ended, its box was closed and ticks went on
C34_Witness ==
    \E w \in Timers :
        /\ Started(w)
        /\ obs[w].n = MaxMinutes
        /\ obs[w].notes = 1
        /\ ~W[w].timer_active
        /\ ~W[w].box
        /\ obs[w].ticks = TickCap

----------------------------------------------------------------------------
(* Claims on the lists shown to the user *)

\* C35: while the preview window is open its entries are those of the active
\* widgets, one for one: every entry is of a widget of the collection and every
\* active widget has its entry, also after a create, a remove or a load
C35_ItemsMatchTheCollection ==
    preview.window =>
        /\ Len(preview.items) = Len(active_widgets)
        /\ \A i \in 1..Len(preview.items) :
               preview.items[i].widget_info = active_widgets[i]

\* C36: the listbox has one entry for each active widget, in the order of the
\* collection, so a selected row is the place of an active widget; also after
\* a load that fails partway
C36_ListboxMatchesTheCollection ==
    /\ Len(listbox) = Len(active_widgets)
    /\ \A i \in 1..Len(listbox) : listbox[i].name = W[active_widgets[i]].name

\* C37: the pin mark of every row of the listbox tells whether the widget of
\* the row is pinned, also right after pin-selected and unpin-selected
C37_PinMarksAreCurrent ==
    \A i \in 1..Len(listbox) :
        i <= Len(active_widgets) =>
            listbox[i].pin_mark = IsPinned(cur, active_widgets[i])

\* C38: the names of the active widgets are pairwise distinct, whatever the
\* creates and removes since the empty collection
C38_NamesAreDistinct ==
    \A i, j \in 1..Len(active_widgets) :
        i # j => W[active_widgets[i]].name # W[active_widgets[j]].name

====
